---------------------------- MODULE Spec2Model ----------------------------
(***************************************************************************)
(* The URL sanitization engine of sanitizetelebot.go (telebot v4 version): *)
(* handleTextMessage, sanitizeURL, the rule matching it inlines, ExpandUrl, *)
(* fetchTikTokPhotos with its pool of download goroutines, downloadImage.  *)
(*                                                                         *)
(* A Go string is a sequence of one-character strings, so that             *)
(* strings.HasPrefix, HasSuffix, Contains and Split are computed as the    *)
(* library computes them.  A message text is a sequence of atoms: a        *)
(* whitespace byte, a plain word, or a URL-shaped word.                    *)
(***************************************************************************)
EXTENDS Integers, Sequences, FiniteSets, TLC

VARIABLES
  text,                  \* sanitizeURL's argument
  rest,                  \* the part of text the bufio.Scanner has not read yet
  words,                 \* the words of the current paragraph still to process
  sb,                    \* strings.Builder: the output written so far
  isFirstParagraph,
  isFirstWordInParagraph,
  wasSanitized,
  isTikTokPhotoAlbum,
  downloadedPhotoPaths,
  originalURLs,
  pc,                    \* where sanitizeURL / fetchTikTokPhotos stands
  cur,                   \* locals of the URL word being processed
  images,                \* fetchTikTokPhotos: tikwmResp.Data.Images
  spawned,               \* fetchTikTokPhotos: goroutines started by the loop
  wstate,                \* per goroutine: "waiting" | "downloading" | "done"
  sem,                   \* number of tokens in the semaphore channel
  wg,                    \* the WaitGroup counter
  results,               \* the results slice
  fetchRet,              \* what fetchTikTokPhotos returned
  finished,              \* history of the downloads of the call, in time
  ret,                   \* what sanitizeURL returned
  hist,                  \* one record per URL word processed (history)
  now,                   \* per goroutine: the clock tick its time.Now() falls in
  disk,                  \* the files of the image cache directory
  sent,                  \* the calls of b.Send and b.SendAlbum, with their outcome
  sendErr,               \* handleTextMessage: sendErr
  batch_i,               \* handleTextMessage: i of the batch loop
  deleted,               \* b.Delete of the original message: "no" | "yes" | "failed"
  hret                   \* what handleTextMessage returned

vars == << text, rest, words, sb, isFirstParagraph, isFirstWordInParagraph,
           wasSanitized, isTikTokPhotoAlbum, downloadedPhotoPaths, originalURLs,
           pc, cur, images, spawned, wstate, sem, wg, results, fetchRet, finished, ret, hist,
           now, disk, sent, sendErr, batch_i, deleted, hret >>

---------------------------------------------------------------------------
(* package strings *)

HasPrefix(s, p) == Len(p) <= Len(s) /\ SubSeq(s, 1, Len(p)) = p

HasSuffix(s, p) == Len(p) <= Len(s) /\ SubSeq(s, Len(s) - Len(p) + 1, Len(s)) = p

Contains(s, sub) == \E i \in 0..(Len(s) - Len(sub)) : SubSeq(s, i + 1, i + Len(sub)) = sub

RECURSIVE SplitAcc(_, _, _)
SplitAcc(s, sep, seg) ==
  IF s = << >> THEN << seg >>
  ELSE IF Head(s) = sep THEN << seg >> \o SplitAcc(Tail(s), sep, << >>)
  ELSE SplitAcc(Tail(s), sep, Append(seg, Head(s)))

Split(s, sep) == SplitAcc(s, sep, << >>)

\* byte order of the characters that occur in parameter names
Alphabet ==
  << "0", "1", "2", "3", "4", "5", "6", "7", "8", "9",
     "A", "B", "C", "D", "E", "F", "G", "H", "I", "J", "K", "L", "M",
     "N", "O", "P", "Q", "R", "S", "T", "U", "V", "W", "X", "Y", "Z", "_",
     "a", "b", "c", "d", "e", "f", "g", "h", "i", "j", "k", "l", "m",
     "n", "o", "p", "q", "r", "s", "t", "u", "v", "w", "x", "y", "z" >>

Ord(c) == CHOOSE i \in DOMAIN Alphabet : Alphabet[i] = c

RECURSIVE Less(_, _)
Less(a, b) ==
  IF b = << >> THEN FALSE
  ELSE IF a = << >> THEN TRUE
  ELSE IF Head(a) = Head(b) THEN Less(Tail(a), Tail(b))
  ELSE Ord(Head(a)) < Ord(Head(b))

Range(f) == { f[i] : i \in DOMAIN f }

Perms(S) == { f \in [1..Cardinality(S) -> S] : \A i, j \in DOMAIN f : f[i] = f[j] => i = j }

---------------------------------------------------------------------------
(* the constants of sanitizetelebot.go *)

tiktokShortHost == <<"v", "m", ".", "t", "i", "k", "t", "o", "k", ".", "c", "o", "m">>  \* "vm.tiktok.com"
tiktokHost == <<"t", "i", "k", "t", "o", "k", ".", "c", "o", "m">>  \* "tiktok.com"
tiktokHostSuffix == <<"t", "i", "k", "t", "o", "k", ".", "c", "o", "m">>  \* "tiktok.com"
tiktokPhotoPathSegment == <<"/", "p", "h", "o", "t", "o", "/">>  \* "/photo/"
tiktokLivePathSegment == <<"/", "l", "i", "v", "e">>  \* "/live"
tiktokCleanHost == <<"v", "m", ".", "d", "s", "t", "n", ".", "t", "o">>  \* "vm.dstn.to"
xComHost == <<"x", ".", "c", "o", "m">>  \* "x.com"
fixupXHost == <<"f", "i", "x", "u", "p", "x", ".", "c", "o", "m">>  \* "fixupx.com"
instagramHostSuffix == <<"i", "n", "s", "t", "a", "g", "r", "a", "m", ".", "c", "o", "m">>  \* "instagram.com"
instagramProfileCardSegment == <<"p", "r", "o", "f", "i", "l", "e", "c", "a", "r", "d">>  \* "profilecard"
instagramReelPathSegment == <<"/", "r", "e", "e", "l", "/">>  \* "/reel/"
instagramPostPathSegment == <<"/", "p", "/">>  \* "/p/"
ddInstagramHost == <<"d", ".", "d", "d", "i", "n", "s", "t", "a", "g", "r", "a", "m", ".", "c", "o", "m">>  \* "d.ddinstagram.com"
tiktokExpandExemptSegment == <<"/", "t", "/">>  \* "/t/"

maxConcurrentDownloads == 10
maxPhotosPerMessage == 10
msgMarkerNoCut == <<"n", "o", "c", "u", "t">>  \* "nocut"

---------------------------------------------------------------------------
(* the rule table: universalRules and hostRules *)

URLRules ==
  << <<"a", "c", "t", "i", "o", "n", "_", "o", "b", "j", "e", "c", "t", "_", "m", "a", "p">>,  \* action_object_map
     <<"a", "c", "t", "i", "o", "n", "_", "t", "y", "p", "e", "_", "m", "a", "p">>,  \* action_type_map
     <<"a", "c", "t", "i", "o", "n", "_", "r", "e", "f", "_", "m", "a", "p">>,  \* action_ref_map
     <<"s", "p", "m", "@", "*", ".", "a", "l", "i", "e", "x", "p", "r", "e", "s", "s", ".", "c", "o", "m">>,  \* spm@*.aliexpress.com
     <<"s", "c", "m", "@", "*", ".", "a", "l", "i", "e", "x", "p", "r", "e", "s", "s", ".", "c", "o", "m">>,  \* scm@*.aliexpress.com
     <<"a", "f", "f", "_", "p", "l", "a", "t", "f", "o", "r", "m">>,  \* aff_platform
     <<"a", "f", "f", "_", "t", "r", "a", "c", "e", "_", "k", "e", "y">>,  \* aff_trace_key
     <<"a", "l", "g", "o", "_", "e", "x", "p", "i", "d", "@", "*", ".", "a", "l", "i", "e", "x", "p", "r", "e", "s", "s", ".", "*">>,  \* algo_expid@*.aliexpress.*
     <<"a", "l", "g", "o", "_", "p", "v", "i", "d", "@", "*", ".", "a", "l", "i", "e", "x", "p", "r", "e", "s", "s", ".", "*">>,  \* algo_pvid@*.aliexpress.*
     <<"b", "t", "s", "i", "d">>,  \* btsid
     <<"w", "s", "_", "a", "b", "_", "t", "e", "s", "t">>,  \* ws_ab_test
     <<"p", "d", "_", "r", "d", "_", "*", "@", "a", "m", "a", "z", "o", "n", ".", "*">>,  \* pd_rd_*@amazon.*
     <<"_", "e", "n", "c", "o", "d", "i", "n", "g", "@", "a", "m", "a", "z", "o", "n", ".", "*">>,  \* _encoding@amazon.*
     <<"p", "s", "c", "@", "a", "m", "a", "z", "o", "n", ".", "*">>,  \* psc@amazon.*
     <<"t", "a", "g", "@", "a", "m", "a", "z", "o", "n", ".", "*">>,  \* tag@amazon.*
     <<"r", "e", "f", "_", "@", "a", "m", "a", "z", "o", "n", ".", "*">>,  \* ref_@amazon.*
     <<"p", "f", "_", "r", "d", "_", "*", "@", "a", "m", "a", "z", "o", "n", ".", "*">>,  \* pf_rd_*@amazon.*
     <<"p", "f", "@", "a", "m", "a", "z", "o", "n", ".", "*">>,  \* pf@amazon.*
     <<"c", "r", "i", "d", "@", "a", "m", "a", "z", "o", "n", ".", "*">>,  \* crid@amazon.*
     <<"k", "e", "y", "w", "o", "r", "d", "s", "@", "a", "m", "a", "z", "o", "n", ".", "*">>,  \* keywords@amazon.*
     <<"s", "p", "r", "e", "f", "i", "x", "@", "a", "m", "a", "z", "o", "n", ".", "*">>,  \* sprefix@amazon.*
     <<"s", "r", "@", "a", "m", "a", "z", "o", "n", ".", "*">>,  \* sr@amazon.*
     <<"i", "e", "@", "a", "m", "a", "z", "o", "n", ".", "*">>,  \* ie@amazon.*
     <<"n", "o", "d", "e", "@", "a", "m", "a", "z", "o", "n", ".", "*">>,  \* node@amazon.*
     <<"q", "i", "d", "@", "a", "m", "a", "z", "o", "n", ".", "*">>,  \* qid@amazon.*
     <<"c", "a", "l", "l", "b", "a", "c", "k", "@", "b", "i", "l", "i", "b", "i", "l", "i", ".", "c", "o", "m">>,  \* callback@bilibili.com
     <<"c", "v", "i", "d", "@", "b", "i", "n", "g", ".", "c", "o", "m">>,  \* cvid@bing.com
     <<"f", "o", "r", "m", "@", "b", "i", "n", "g", ".", "c", "o", "m">>,  \* form@bing.com
     <<"s", "k", "@", "b", "i", "n", "g", ".", "c", "o", "m">>,  \* sk@bing.com
     <<"s", "p", "@", "b", "i", "n", "g", ".", "c", "o", "m">>,  \* sp@bing.com
     <<"s", "c", "@", "b", "i", "n", "g", ".", "c", "o", "m">>,  \* sc@bing.com
     <<"q", "s", "@", "b", "i", "n", "g", ".", "c", "o", "m">>,  \* qs@bing.com
     <<"p", "q", "@", "b", "i", "n", "g", ".", "c", "o", "m">>,  \* pq@bing.com
     <<"s", "c", "_", "c", "i", "d">>,  \* sc_cid
     <<"m", "k", "t", "_", "t", "o", "k">>,  \* mkt_tok
     <<"t", "r", "k">>,  \* trk
     <<"t", "r", "k", "C", "a", "m", "p", "a", "i", "g", "n">>,  \* trkCampaign
     <<"g", "a", "_", "*">>,  \* ga_*
     <<"g", "c", "l", "i", "d">>,  \* gclid
     <<"g", "c", "l", "s", "r", "c">>,  \* gclsrc
     <<"h", "m", "b", "_", "c", "a", "m", "p", "a", "i", "g", "n">>,  \* hmb_campaign
     <<"h", "m", "b", "_", "m", "e", "d", "i", "u", "m">>,  \* hmb_medium
     <<"h", "m", "b", "_", "s", "o", "u", "r", "c", "e">>,  \* hmb_source
     <<"s", "p", "R", "e", "p", "o", "r", "t", "I", "d">>,  \* spReportId
     <<"s", "p", "J", "o", "b", "I", "D">>,  \* spJobID
     <<"s", "p", "U", "s", "e", "r", "I", "D">>,  \* spUserID
     <<"s", "p", "M", "a", "i", "l", "i", "n", "g", "I", "D">>,  \* spMailingID
     <<"i", "t", "m", "_", "*">>,  \* itm_*
     <<"s", "_", "c", "i", "d">>,  \* s_cid
     <<"e", "l", "q", "T", "r", "a", "c", "k", "I", "d">>,  \* elqTrackId
     <<"e", "l", "q", "T", "r", "a", "c", "k">>,  \* elqTrack
     <<"a", "s", "s", "e", "t", "T", "y", "p", "e">>,  \* assetType
     <<"a", "s", "s", "e", "t", "I", "d">>,  \* assetId
     <<"r", "e", "c", "i", "p", "i", "e", "n", "t", "I", "d">>,  \* recipientId
     <<"c", "a", "m", "p", "a", "i", "g", "n", "I", "d">>,  \* campaignId
     <<"s", "i", "t", "e", "I", "d">>,  \* siteId
     <<"m", "c", "_", "c", "i", "d">>,  \* mc_cid
     <<"m", "c", "_", "e", "i", "d">>,  \* mc_eid
     <<"p", "k", "_", "*">>,  \* pk_*
     <<"s", "c", "_", "c", "a", "m", "p", "a", "i", "g", "n">>,  \* sc_campaign
     <<"s", "c", "_", "c", "h", "a", "n", "n", "e", "l">>,  \* sc_channel
     <<"s", "c", "_", "c", "o", "n", "t", "e", "n", "t">>,  \* sc_content
     <<"s", "c", "_", "m", "e", "d", "i", "u", "m">>,  \* sc_medium
     <<"s", "c", "_", "o", "u", "t", "c", "o", "m", "e">>,  \* sc_outcome
     <<"s", "c", "_", "g", "e", "o">>,  \* sc_geo
     <<"s", "c", "_", "c", "o", "u", "n", "t", "r", "y">>,  \* sc_country
     <<"n", "r", "_", "e", "m", "a", "i", "l", "_", "r", "e", "f", "e", "r", "e", "r">>,  \* nr_email_referer
     <<"v", "e", "r", "o", "_", "c", "o", "n", "v">>,  \* vero_conv
     <<"v", "e", "r", "o", "_", "i", "d">>,  \* vero_id
     <<"y", "c", "l", "i", "d">>,  \* yclid
     <<"_", "o", "p", "e", "n", "s", "t", "a", "t">>,  \* _openstat
     <<"m", "b", "i", "d">>,  \* mbid
     <<"c", "m", "p", "i", "d">>,  \* cmpid
     <<"c", "i", "d">>,  \* cid
     <<"c", "_", "i", "d">>,  \* c_id
     <<"c", "a", "m", "p", "a", "i", "g", "n", "_", "i", "d">>,  \* campaign_id
     <<"C", "a", "m", "p", "a", "i", "g", "n">>,  \* Campaign
     <<"h", "a", "s", "h", "@", "e", "b", "a", "y", ".", "*">>,  \* hash@ebay.*
     <<"f", "b", "_", "a", "c", "t", "i", "o", "n", "_", "i", "d", "s">>,  \* fb_action_ids
     <<"f", "b", "_", "a", "c", "t", "i", "o", "n", "_", "t", "y", "p", "e", "s">>,  \* fb_action_types
     <<"f", "b", "_", "r", "e", "f">>,  \* fb_ref
     <<"f", "b", "_", "s", "o", "u", "r", "c", "e">>,  \* fb_source
     <<"f", "b", "c", "l", "i", "d">>,  \* fbclid
     <<"r", "e", "f", "s", "r", "c", "@", "f", "a", "c", "e", "b", "o", "o", "k", ".", "c", "o", "m">>,  \* refsrc@facebook.com
     <<"h", "r", "c", "@", "f", "a", "c", "e", "b", "o", "o", "k", ".", "c", "o", "m">>,  \* hrc@facebook.com
     <<"g", "s", "_", "l">>,  \* gs_l
     <<"g", "s", "_", "l", "c", "p", "@", "g", "o", "o", "g", "l", "e", ".", "*">>,  \* gs_lcp@google.*
     <<"v", "e", "d", "@", "g", "o", "o", "g", "l", "e", ".", "*">>,  \* ved@google.*
     <<"e", "i", "@", "g", "o", "o", "g", "l", "e", ".", "*">>,  \* ei@google.*
     <<"s", "e", "i", "@", "g", "o", "o", "g", "l", "e", ".", "*">>,  \* sei@google.*
     <<"g", "w", "s", "_", "r", "d", "@", "g", "o", "o", "g", "l", "e", ".", "*">>,  \* gws_rd@google.*
     <<"g", "s", "_", "g", "b", "g", "@", "g", "o", "o", "g", "l", "e", ".", "*">>,  \* gs_gbg@google.*
     <<"g", "s", "_", "m", "s", "s", "@", "g", "o", "o", "g", "l", "e", ".", "*">>,  \* gs_mss@google.*
     <<"g", "s", "_", "r", "n", "@", "g", "o", "o", "g", "l", "e", ".", "*">>,  \* gs_rn@google.*
     <<"_", "h", "s", "e", "n", "c">>,  \* _hsenc
     <<"_", "h", "s", "m", "i">>,  \* _hsmi
     <<"_", "_", "h", "s", "s", "c">>,  \* __hssc
     <<"_", "_", "h", "s", "t", "c">>,  \* __hstc
     <<"h", "s", "C", "t", "a", "T", "r", "a", "c", "k", "i", "n", "g">>,  \* hsCtaTracking
     <<"s", "o", "u", "r", "c", "e", "@", "s", "o", "u", "r", "c", "e", "f", "o", "r", "g", "e", ".", "n", "e", "t">>,  \* source@sourceforge.net
     <<"p", "o", "s", "i", "t", "i", "o", "n", "@", "s", "o", "u", "r", "c", "e", "f", "o", "r", "g", "e", ".", "n", "e", "t">>,  \* position@sourceforge.net
     <<"t", "@", "*", ".", "t", "w", "i", "t", "t", "e", "r", ".", "c", "o", "m">>,  \* t@*.twitter.com
     <<"s", "@", "*", ".", "t", "w", "i", "t", "t", "e", "r", ".", "c", "o", "m">>,  \* s@*.twitter.com
     <<"r", "e", "f", "_", "*", "@", "*", ".", "t", "w", "i", "t", "t", "e", "r", ".", "c", "o", "m">>,  \* ref_*@*.twitter.com
     <<"t", "@", "*", ".", "x", ".", "c", "o", "m">>,  \* t@*.x.com
     <<"s", "@", "*", ".", "x", ".", "c", "o", "m">>,  \* s@*.x.com
     <<"r", "e", "f", "_", "*", "@", "*", ".", "x", ".", "c", "o", "m">>,  \* ref_*@*.x.com
     <<"t", "@", "*", ".", "f", "i", "x", "u", "p", "x", ".", "c", "o", "m">>,  \* t@*.fixupx.com
     <<"s", "@", "*", ".", "f", "i", "x", "u", "p", "x", ".", "c", "o", "m">>,  \* s@*.fixupx.com
     <<"r", "e", "f", "_", "*", "@", "*", ".", "f", "i", "x", "u", "p", "x", ".", "c", "o", "m">>,  \* ref_*@*.fixupx.com
     <<"t", "@", "*", ".", "f", "x", "t", "w", "i", "t", "t", "e", "r", ".", "c", "o", "m">>,  \* t@*.fxtwitter.com
     <<"s", "@", "*", ".", "f", "x", "t", "w", "i", "t", "t", "e", "r", ".", "c", "o", "m">>,  \* s@*.fxtwitter.com
     <<"r", "e", "f", "_", "*", "@", "*", ".", "f", "x", "t", "w", "i", "t", "t", "e", "r", ".", "c", "o", "m">>,  \* ref_*@*.fxtwitter.com
     <<"t", "@", "*", ".", "t", "w", "i", "t", "t", "p", "r", ".", "c", "o", "m">>,  \* t@*.twittpr.com
     <<"s", "@", "*", ".", "t", "w", "i", "t", "t", "p", "r", ".", "c", "o", "m">>,  \* s@*.twittpr.com
     <<"r", "e", "f", "_", "*", "@", "*", ".", "t", "w", "i", "t", "t", "p", "r", ".", "c", "o", "m">>,  \* ref_*@*.twittpr.com
     <<"t", "@", "*", ".", "f", "i", "x", "v", "x", ".", "c", "o", "m">>,  \* t@*.fixvx.com
     <<"s", "@", "*", ".", "f", "i", "x", "v", "x", ".", "c", "o", "m">>,  \* s@*.fixvx.com
     <<"r", "e", "f", "_", "*", "@", "*", ".", "f", "i", "x", "v", "x", ".", "c", "o", "m">>,  \* ref_*@*.fixvx.com
     <<"t", "t", "_", "m", "e", "d", "i", "u", "m">>,  \* tt_medium
     <<"t", "t", "_", "c", "o", "n", "t", "e", "n", "t">>,  \* tt_content
     <<"l", "r", "@", "y", "a", "n", "d", "e", "x", ".", "*">>,  \* lr@yandex.*
     <<"r", "e", "d", "i", "r", "c", "n", "t", "@", "y", "a", "n", "d", "e", "x", ".", "*">>,  \* redircnt@yandex.*
     <<"f", "e", "a", "t", "u", "r", "e", "@", "*", ".", "y", "o", "u", "t", "u", "b", "e", ".", "c", "o", "m">>,  \* feature@*.youtube.com
     <<"k", "w", "@", "*", ".", "y", "o", "u", "t", "u", "b", "e", ".", "c", "o", "m">>,  \* kw@*.youtube.com
     <<"s", "i", "@", "*", ".", "y", "o", "u", "t", "u", "b", "e", ".", "c", "o", "m">>,  \* si@*.youtube.com
     <<"p", "p", "@", "*", ".", "y", "o", "u", "t", "u", "b", "e", ".", "c", "o", "m">>,  \* pp@*.youtube.com
     <<"s", "i", "@", "*", ".", "y", "o", "u", "t", "u", ".", "b", "e">>,  \* si@*.youtu.be
     <<"w", "t", "_", "z", "m", "c">>,  \* wt_zmc
     <<"u", "t", "m", "_", "s", "o", "u", "r", "c", "e">>,  \* utm_source
     <<"u", "t", "m", "_", "c", "o", "n", "t", "e", "n", "t">>,  \* utm_content
     <<"u", "t", "m", "_", "m", "e", "d", "i", "u", "m">>,  \* utm_medium
     <<"u", "t", "m", "_", "c", "a", "m", "p", "a", "i", "g", "n">>,  \* utm_campaign
     <<"u", "t", "m", "_", "t", "e", "r", "m">>,  \* utm_term
     <<"s", "i", "@", "o", "p", "e", "n", ".", "s", "p", "o", "t", "i", "f", "y", ".", "c", "o", "m">>,  \* si@open.spotify.com
     <<"i", "g", "s", "h", "i", "d">>,  \* igshid
     <<"i", "g", "s", "h">>,  \* igsh
     <<"s", "h", "a", "r", "e", "_", "i", "d", "@", "r", "e", "d", "d", "i", "t", ".", "c", "o", "m">>,  \* share_id@reddit.com
     <<"s", "i", "@", "s", "o", "u", "n", "d", "c", "l", "o", "u", "d", ".", "c", "o", "m">> >>  \* si@soundcloud.com

\* hostRules: host-substring key -> parameter-name prefixes (a Go map: no order).
DomainRules ==
     (<<"a", "m", "a", "z", "o", "n">> :> << <<"p", "d", "_", "r", "d", "_">>, <<"_", "e", "n", "c", "o", "d", "i", "n", "g">>, <<"p", "s", "c">>, <<"t", "a", "g">>, <<"r", "e", "f", "_">>, <<"p", "f", "_", "r", "d", "_">>, <<"p", "f">>, <<"c", "r", "i", "d">> >>)  \* amazon
  @@ (<<"y", "o", "u", "t", "u", "b", "e", ".", "c", "o", "m">> :> << <<"f", "e", "a", "t", "u", "r", "e">>, <<"k", "w">>, <<"s", "i">>, <<"p", "p">> >>)  \* youtube.com
  @@ (<<"y", "o", "u", "t", "u", ".", "b", "e">> :> << <<"s", "i">> >>)  \* youtu.be
  @@ (<<"t", "w", "i", "t", "t", "e", "r", ".", "c", "o", "m">> :> << <<"t">>, <<"s">>, <<"r", "e", "f", "_">> >>)  \* twitter.com
  @@ (<<"x", ".", "c", "o", "m">> :> << <<"t">>, <<"s">>, <<"r", "e", "f", "_">> >>)  \* x.com
  @@ (<<"i", "n", "s", "t", "a", "g", "r", "a", "m", ".", "c", "o", "m">> :> << <<"i", "g", "s", "h", "i", "d">> >>)  \* instagram.com
  @@ (<<"s", "p", "o", "t", "i", "f", "y", ".", "c", "o", "m">> :> << <<"s", "i">> >>)  \* spotify.com
  @@ (<<"r", "e", "d", "d", "i", "t", ".", "c", "o", "m">> :> << <<"s", "h", "a", "r", "e", "_", "i", "d">> >>)  \* reddit.com
  @@ (<<"s", "o", "u", "n", "d", "c", "l", "o", "u", "d", ".", "c", "o", "m">> :> << <<"s", "i">> >>)  \* soundcloud.com
  @@ (<<"t", "i", "k", "t", "o", "k">> :> << <<"_", "r">>, <<"_", "t">> >>)  \* tiktok
---------------------------------------------------------------------------
(* package net/url *)

\* url.Parse of a URL-shaped word.  A word is a record
\*   [kind |-> "url", host, path, qmark, query, frag]
\* with query a sequence of [k, v, eq] (eq: the pair is written with '=') and
\* frag one of "" (none), "#" (an empty fragment) or "#f".
Parse(w) ==
  [ Host |-> w.host, Path |-> w.path, RawQuery |-> w.query,
    ForceQuery |-> (w.qmark /\ w.query = << >>),
    Fragment |-> IF w.frag = "#f" THEN "f" ELSE "" ]

\* (*URL).String: '?' is written for a non-empty RawQuery or ForceQuery, '#'
\* only for a non-empty fragment.
String(u) ==
  [ kind |-> "url", host |-> u.Host, path |-> u.Path,
    qmark |-> (u.ForceQuery \/ u.RawQuery # << >>), query |-> u.RawQuery,
    frag |-> IF u.Fragment = "" THEN "" ELSE "#f" ]

\* the URL of the empty string
EmptyURL == [ Host |-> << >>, Path |-> << >>, RawQuery |-> << >>, ForceQuery |-> FALSE, Fragment |-> "" ]

\* (*URL).Query: url.Values, a map from each key to its values in order
Query(u) ==
  LET raw == u.RawQuery
      vals(k) == LET sel == SelectSeq(raw, LAMBDA p : p.k = k)
                 IN [ i \in 1..Len(sel) |-> sel[i].v ]
  IN [ k \in { raw[i].k : i \in DOMAIN raw } |-> vals(k) ]

\* Values.Del
Del(q, k) == [ x \in (DOMAIN q) \ {k} |-> q[x] ]

RECURSIVE SortKeys(_)
SortKeys(S) ==
  IF S = {} THEN << >>
  ELSE LET m == CHOOSE x \in S : \A y \in S \ {x} : Less(x, y)
       IN << m >> \o SortKeys(S \ {m})

RECURSIVE EncodeKeys(_, _)
EncodeKeys(q, keys) ==
  IF keys = << >> THEN << >>
  ELSE [ i \in 1..Len(q[Head(keys)]) |-> [ k |-> Head(keys), v |-> q[Head(keys)][i], eq |-> TRUE ] ]
       \o EncodeKeys(q, Tail(keys))

\* Values.Encode: "key=value" pairs sorted by key
Encode(q) == EncodeKeys(q, SortKeys(DOMAIN q))

---------------------------------------------------------------------------
(* sanitizeURL: the steps applied to one URL word.  A step takes and       *)
(* returns the locals [u: parsedURL, san: currentWordSanitized,            *)
(* processedWord].                                                         *)

\* the parameter names that occur in the URLs of the model
n_utm_source == <<"u", "t", "m", "_", "s", "o", "u", "r", "c", "e">>  \* "utm_source"
n_Utm_source == <<"U", "t", "m", "_", "s", "o", "u", "r", "c", "e">>  \* "Utm_source"
n_id == <<"i", "d">>  \* "id"
n_tag == <<"t", "a", "g">>  \* "tag"
n_pf_rd_m == <<"p", "f", "_", "r", "d", "_", "m">>  \* "pf_rd_m"
n_si == <<"s", "i">>  \* "si"
n_t == <<"t">>  \* "t"
n_tab == <<"t", "a", "b">>  \* "tab"
n_ga_x == <<"g", "a", "_", "x">>  \* "ga_x"
n_r == <<"_", "r">>  \* "_r"
n_z == <<"z">>  \* "z"
n_a == <<"a">>  \* "a"
n_lang == <<"l", "a", "n", "g">>  \* "lang"
n_spm == <<"s", "p", "m">>  \* "spm"

ParamNames ==
  { n_utm_source, n_Utm_source, n_id, n_tag, n_pf_rd_m, n_si, n_t, n_tab, n_ga_x, n_r,
    n_z, n_a, n_lang, n_spm }

containsURL(w) == w.kind \in {"url", "badurl"}

\* url.Parse fails on the word
ParseFails(w) == w.kind = "badurl"

NeedsExpand(u) ==
  u.Host = tiktokShortHost \/ (u.Host = tiktokHost /\ ~Contains(u.Path, tiktokExpandExemptSegment))

\* the result e of ExpandUrl(parsedURL.String()) followed by url.Parse:
\* "none" (not called), "error", "badparse" or "ok" with the final URL
\* mutants of AfterExpand: a changed URL is not flagged; the empty result
\* string of a failed ExpandUrl is used
AfterExpandSilent(st, e) ==
  IF e.kind = "ok"
  THEN [ u |-> Parse(e.url), san |-> st.san, processedWord |-> String(Parse(e.url)) ]
  ELSE st

AfterExpandUsesError(st, e) ==
  IF e.kind = "ok"
  THEN [ u |-> Parse(e.url), san |-> (st.san \/ String(st.u) # String(Parse(e.url))),
         processedWord |-> String(Parse(e.url)) ]
  ELSE IF e.kind = "error"
  THEN [ u |-> EmptyURL, san |-> TRUE, processedWord |-> String(EmptyURL) ]
  ELSE st

AfterExpand(st, e) ==
  IF e.kind = "ok"
  THEN LET x == Parse(e.url)
       IN [ u |-> x, san |-> (st.san \/ String(st.u) # String(x)), processedWord |-> String(x) ]
  ELSE st

\* mutant of IsPhoto: the host is compared, not its suffix
IsPhotoExactHost(u) == u.Host = tiktokHost /\ Contains(u.Path, tiktokPhotoPathSegment)

IsPhoto(u) == HasSuffix(u.Host, tiktokHostSuffix) /\ Contains(u.Path, tiktokPhotoPathSegment)

\* mutant of PhotoStrip: the query is kept
PhotoStripKeepsQuery(st) ==
  [ u |-> st.u, san |-> st.san, processedWord |-> String(st.u) ]

\* photo posts: the whole query is dropped, the word is always re-serialized
PhotoStrip(st) ==
  LET u2 == IF st.u.RawQuery # << >> THEN [ st.u EXCEPT !.RawQuery = << >> ] ELSE st.u
  IN [ u |-> u2, san |-> (st.san \/ st.u.RawQuery # << >>), processedWord |-> String(u2) ]

\* mutant of MatchesAny: the name is compared, not its prefix
MatchesAnyExact(paramName, prefixes) ==
  \E i \in DOMAIN prefixes : paramName = prefixes[i]

\* the inner loop `for _, rulePrefix := range ...`: some prefix fits
MatchesAny(paramName, prefixes) ==
  \E i \in DOMAIN prefixes : HasPrefix(paramName, prefixes[i])

\* MatchesAny against the rule table, tabulated over the parameter names of
\* the model
universalMatch == [ k \in ParamNames |-> MatchesAny(k, URLRules) ]

domainMatch ==
  [ key \in DOMAIN DomainRules |-> [ k \in ParamNames |-> MatchesAny(k, DomainRules[key]) ] ]

\* One `for paramName := range q` loop with its inner loop over prefixes.
\* order is the order in which the map yields its keys; a key deleted before
\* it is reached is not yielded.  ps = [q, mod: paramsModified].
RECURSIVE RangeDel(_, _, _)
RangeDel(ps, order, match) ==
  IF order = << >> THEN ps
  ELSE LET k == Head(order)
           hit == k \in DOMAIN ps.q /\ match[k]
       IN RangeDel(IF hit THEN [ q |-> Del(ps.q, k), mod |-> TRUE ] ELSE ps,
                   Tail(order), match)

\* the keys of DomainRules whose body runs for this host
MatchingKeys(host) == { key \in DOMAIN DomainRules : Contains(host, key) }

\* `for domainKey, rulePrefixes := range DomainRules`: dorder is the order of
\* the keys that pass the strings.Contains test, ords[1 + j] the order of the
\* j-th inner loop over q
RECURSIVE DomainLoop(_, _, _, _)
DomainLoop(ps, dorder, ords, j) ==
  IF j > Len(dorder) THEN ps
  ELSE DomainLoop(RangeDel(ps, ords[1 + j], domainMatch[dorder[j]]), dorder, ords, j + 1)

\* the map iteration orders Go may choose for a URL
Orders(u) ==
  [ d : Perms(MatchingKeys(u.Host)),
    p : [ 1..(1 + Cardinality(MatchingKeys(u.Host))) -> Perms(DOMAIN Query(u)) ] ]

StripParams(st, o) ==
  LET ps0 == [ q |-> Query(st.u), mod |-> FALSE ]
      ps1 == RangeDel(ps0, o.p[1], universalMatch)
      ps2 == DomainLoop(ps1, o.d, o.p, 1)
      u2  == [ st.u EXCEPT !.RawQuery = Encode(ps2.q) ]
  IN IF ps2.mod
     THEN [ u |-> u2, san |-> TRUE, processedWord |-> String(u2) ]
     ELSE st

\* mutant of TikTokRewrite: the host of a live stream is replaced too
TikTokRewriteLiveToo(st) ==
  IF HasSuffix(st.u.Host, tiktokHostSuffix)
  THEN LET toClean == ~Contains(st.u.Path, tiktokPhotoPathSegment)
                      /\ st.u.Host # tiktokCleanHost
           u1 == IF toClean THEN [ st.u EXCEPT !.Host = tiktokCleanHost ] ELSE st.u
           live == Contains(u1.Path, tiktokLivePathSegment) /\ u1.RawQuery # << >>
           u2 == IF live THEN [ u1 EXCEPT !.RawQuery = << >> ] ELSE u1
       IN IF toClean \/ live
          THEN [ u |-> u2, san |-> TRUE, processedWord |-> String(u2) ]
          ELSE st
  ELSE st

TikTokRewrite(st) ==
  IF HasSuffix(st.u.Host, tiktokHostSuffix)
  THEN LET toClean == ~Contains(st.u.Path, tiktokPhotoPathSegment)
                      /\ ~Contains(st.u.Path, tiktokLivePathSegment)
                      /\ st.u.Host # tiktokCleanHost
           u1 == IF toClean THEN [ st.u EXCEPT !.Host = tiktokCleanHost ] ELSE st.u
           live == Contains(u1.Path, tiktokLivePathSegment) /\ u1.RawQuery # << >>
           u2 == IF live THEN [ u1 EXCEPT !.RawQuery = << >> ] ELSE u1
       IN IF toClean \/ live
          THEN [ u |-> u2, san |-> TRUE, processedWord |-> String(u2) ]
          ELSE st
  ELSE st

\* mutant of XRewrite: the host is compared by its suffix
XRewriteSuffix(st) ==
  IF HasSuffix(st.u.Host, xComHost) /\ st.u.Host # fixupXHost
  THEN LET u2 == [ st.u EXCEPT !.Host = fixupXHost ]
       IN [ u |-> u2, san |-> TRUE, processedWord |-> String(u2) ]
  ELSE st

XRewrite(st) ==
  IF st.u.Host = xComHost /\ st.u.Host # fixupXHost
  THEN LET u2 == [ st.u EXCEPT !.Host = fixupXHost ]
       IN [ u |-> u2, san |-> TRUE, processedWord |-> String(u2) ]
  ELSE st

\* mutants of InstagramRewrite: the host is replaced for every path; the
\* host is replaced again when it is the mirror already
InstagramRewriteAnyPath(st) ==
  IF HasSuffix(st.u.Host, instagramHostSuffix)
  THEN LET pathSegments == Split(st.u.Path, "/")
           card == Len(pathSegments) > 2 /\ pathSegments[3] = instagramProfileCardSegment
           u1 == IF card THEN [ st.u EXCEPT !.Path = << "/" >> \o pathSegments[2] ] ELSE st.u
           dd == u1.Host # ddInstagramHost
           u2 == IF dd THEN [ u1 EXCEPT !.Host = ddInstagramHost ] ELSE u1
       IN IF card \/ dd
          THEN [ u |-> u2, san |-> TRUE, processedWord |-> String(u2) ]
          ELSE st
  ELSE st

InstagramRewriteAgain(st) ==
  IF HasSuffix(st.u.Host, instagramHostSuffix)
  THEN LET pathSegments == Split(st.u.Path, "/")
           card == Len(pathSegments) > 2 /\ pathSegments[3] = instagramProfileCardSegment
           u1 == IF card THEN [ st.u EXCEPT !.Path = << "/" >> \o pathSegments[2] ] ELSE st.u
           dd == Contains(u1.Path, instagramReelPathSegment)
                 \/ Contains(u1.Path, instagramPostPathSegment)
           u2 == IF dd THEN [ u1 EXCEPT !.Host = ddInstagramHost ] ELSE u1
       IN IF card \/ dd
          THEN [ u |-> u2, san |-> TRUE, processedWord |-> String(u2) ]
          ELSE st
  ELSE st

InstagramRewrite(st) ==
  IF HasSuffix(st.u.Host, instagramHostSuffix)
  THEN LET pathSegments == Split(st.u.Path, "/")
           card == Len(pathSegments) > 2 /\ pathSegments[3] = instagramProfileCardSegment
           u1 == IF card THEN [ st.u EXCEPT !.Path = << "/" >> \o pathSegments[2] ] ELSE st.u
           dd == (Contains(u1.Path, instagramReelPathSegment)
                  \/ Contains(u1.Path, instagramPostPathSegment))
                 /\ u1.Host # ddInstagramHost
           u2 == IF dd THEN [ u1 EXCEPT !.Host = ddInstagramHost ] ELSE u1
       IN IF card \/ dd
          THEN [ u |-> u2, san |-> TRUE, processedWord |-> String(u2) ]
          ELSE st
  ELSE st

\* the else branch: parameter cleaning, then the special domain replacements
General(st, o) == InstagramRewrite(XRewrite(TikTokRewrite(StripParams(st, o))))

---------------------------------------------------------------------------
(* the texts and the network answers the model draws from *)

MaxAtoms == 3       \* length of a text that varies the whitespace
MaxWords == 2       \* words of a text that varies the words
MaxImages == 1      \* images in the manifest of an ordinary post
AlbumImages == 3    \* images in the manifest of the album post
BigImages == 11     \* images in the manifest of the large album post
MaxPhotos == 21     \* photos sanitizeURL hands to handleTextMessage

SP == [ kind |-> "ws", c |-> " " ]
TAB == [ kind |-> "ws", c |-> "\t" ]
CR == [ kind |-> "ws", c |-> "\r" ]
NL == [ kind |-> "ws", c |-> "\n" ]
Hi == [ kind |-> "word", w |-> "hi" ]
\* a word longer than bufio.MaxScanTokenSize
LONG == [ kind |-> "word", w |-> "LONG" ]
\* a word with the http:// prefix that url.Parse rejects (http://%zz)
BadURL == [ kind |-> "badurl" ]

P(k, v) == [ k |-> k, v |-> v, eq |-> TRUE ]
Bare(k) == [ k |-> k, v |-> "", eq |-> FALSE ]

URL(h, p, q, f) ==
  [ kind |-> "url", host |-> h, path |-> p, qmark |-> (q # << >>), query |-> q, frag |-> f ]

h_example == <<"e", "x", "a", "m", "p", "l", "e", ".", "c", "o", "m">>  \* "example.com"
h_www_tiktok == <<"w", "w", "w", ".", "t", "i", "k", "t", "o", "k", ".", "c", "o", "m">>  \* "www.tiktok.com"
h_www_x == <<"w", "w", "w", ".", "x", ".", "c", "o", "m">>  \* "www.x.com"
h_netflix == <<"n", "e", "t", "f", "l", "i", "x", ".", "c", "o", "m">>  \* "netflix.com"
h_www_instagram == <<"w", "w", "w", ".", "i", "n", "s", "t", "a", "g", "r", "a", "m", ".", "c", "o", "m">>  \* "www.instagram.com"
h_www_amazon == <<"w", "w", "w", ".", "a", "m", "a", "z", "o", "n", ".", "c", "o", "m">>  \* "www.amazon.com"
h_www_youtube == <<"w", "w", "w", ".", "y", "o", "u", "t", "u", "b", "e", ".", "c", "o", "m">>  \* "www.youtube.com"
h_amazon_x == <<"a", "m", "a", "z", "o", "n", ".", "x", ".", "c", "o", "m">>  \* "amazon.x.com"
h_www_aliexpress == <<"w", "w", "w", ".", "a", "l", "i", "e", "x", "p", "r", "e", "s", "s", ".", "c", "o", "m">>  \* "www.aliexpress.com"

p_root == <<"/">>  \* "/"
p_video == <<"/", "@", "u", "/", "v", "i", "d", "e", "o", "/", "1">>  \* "/@u/video/1"
p_photo == <<"/", "@", "u", "/", "p", "h", "o", "t", "o", "/", "1">>  \* "/@u/photo/1"
p_album == <<"/", "@", "u", "/", "p", "h", "o", "t", "o", "/", "5">>  \* "/@u/photo/5"
p_bigphoto == <<"/", "@", "u", "/", "p", "h", "o", "t", "o", "/", "9">>  \* "/@u/photo/9"
p_live == <<"/", "@", "u", "/", "l", "i", "v", "e">>  \* "/@u/live"
p_t == <<"/", "t", "/", "a", "b", "c">>  \* "/t/abc"
p_card == <<"/", "u", "/", "p", "r", "o", "f", "i", "l", "e", "c", "a", "r", "d", "/", "x">>  \* "/u/profilecard/x"
p_pcard == <<"/", "p", "/", "p", "r", "o", "f", "i", "l", "e", "c", "a", "r", "d", "/", "x">>  \* "/p/profilecard/x"
p_reel == <<"/", "r", "e", "e", "l", "/", "1">>  \* "/reel/1"
p_post == <<"/", "p", "/", "1">>  \* "/p/1"
p_user == <<"/", "u">>  \* "/u"

Hosts ==
  { tiktokShortHost, tiktokHost, h_www_tiktok, tiktokCleanHost, xComHost, h_www_x,
    fixupXHost, h_netflix, h_www_instagram, ddInstagramHost, h_example,
    h_www_amazon, h_www_youtube, h_amazon_x, h_www_aliexpress }

Paths == { p_root, p_video, p_photo, p_live, p_t, p_card, p_pcard, p_reel, p_post, p_user }

Queries ==
  { << >>,
    << P(n_utm_source, "x"), P(n_id, "1") >>,
    << P(n_z, "1"), P(n_utm_source, "x"), P(n_a, "2") >>,
    << P(n_z, "1"), P(n_a, "2") >>,
    << P(n_id, "2"), P(n_id, "1"), P(n_tag, "abc") >>,
    << P(n_tag, "abc"), P(n_pf_rd_m, "1") >>,
    << P(n_si, "1"), P(n_t, "5") >>,
    << P(n_tab, "1"), P(n_Utm_source, "x") >>,
    << P(n_ga_x, "1"), Bare(n_id) >>,
    << Bare(n_utm_source), P(n_r, "1") >>,
    << P(n_spm, "1"), P(n_id, "1") >> }

\* the hosts whose URLs sanitizeURL expands first
ShortHosts == { tiktokShortHost, tiktokHost }

ShortQueries == { << >>, << P(n_utm_source, "x"), P(n_id, "1") >> }

\* the URL-shaped words of one-word texts
BigURLs ==
  { URL(h, p, q, f) : h \in Hosts \ ShortHosts, p \in Paths, q \in Queries, f \in {"", "#"} }
  \cup { URL(h, p, q, "") : h \in ShortHosts, p \in Paths, q \in ShortQueries }
  \cup { [ URL(h, p, << >>, "") EXCEPT !.qmark = TRUE ] :
           h \in { h_www_tiktok, h_example }, p \in { p_photo, p_live } }

U_utm == URL(h_example, p_root, << P(n_utm_source, "x"), P(n_id, "1") >>, "")
U_plain == URL(h_example, p_user, << >>, "")
U_short == URL(tiktokShortHost, p_t, << >>, "")
U_photo == URL(h_www_tiktok, p_photo, << >>, "")

\* texts that vary the whitespace: a word is one atom, so no two
\* non-whitespace atoms are adjacent
StructAtoms == { SP, TAB, CR, NL, Hi, LONG, U_utm }

WordsApart(t) == \A i \in 1..(Len(t) - 1) : t[i].kind = "ws" \/ t[i + 1].kind = "ws"

StructTexts ==
  { t \in UNION { [ 1..n -> StructAtoms ] : n \in 0..MaxAtoms } : WordsApart(t) }

\* texts that vary the words: words separated by one space or one newline
TokenWords == { Hi, BadURL, U_utm, U_plain, U_short, U_photo }

Interleave(ws, seps) ==
  [ i \in 1..(2 * Len(ws) - 1) |-> IF i % 2 = 1 THEN ws[(i + 1) \div 2] ELSE seps[i \div 2] ]

TokenTexts ==
  UNION { { Interleave(ws, seps) : ws \in [ 1..n -> TokenWords ], seps \in [ 1..(n - 1) -> { SP, NL } ] } :
          n \in 1..MaxWords }

\* words and a URL that hold the marker nocut
NoCutWord == [ kind |-> "word", w |-> "nocut" ]
Donocuts == [ kind |-> "word", w |-> "donocuts" ]
p_nocut == <<"/", "n", "o", "c", "u", "t", "/", "1">>  \* "/nocut/1"
U_nocut == URL(h_example, p_nocut, << P(n_utm_source, "x") >>, "")

\* texts with the marker as a word, inside a word, inside a URL, and next to
\* words that sanitizeURL would change
NoCutTexts ==
  { << NoCutWord >>, << U_utm, SP, NoCutWord >>, << U_utm, NL, Donocuts >>, << U_nocut >>,
    << U_photo, SP, Donocuts >>, << U_short, SP, NoCutWord >>, << NoCutWord, NL, LONG >> }

\* the texts of the model; the last one is a photo post followed by a line
\* the scanner cannot hold
Texts ==
  StructTexts \cup TokenTexts \cup { << w >> : w \in BigURLs } \cup NoCutTexts
  \cup { << U_photo, NL, LONG >> }

\* the characters of the strings the model writes as one value
Chars(s) ==
  CASE s = "" -> << >>
    [] s = "hi" -> << "h", "i" >>
    [] s = "LONG" -> << "L", "O", "N", "G" >>
    [] s = "nocut" -> << "n", "o", "c", "u", "t" >>
    [] s = "donocuts" -> << "d", "o", "n", "o", "c", "u", "t", "s" >>
    [] s = "abc" -> << "a", "b", "c" >>
    [] s = "en" -> << "e", "n" >>
    [] s = "#f" -> << "#", "f" >>
    [] OTHER -> << s >>

RECURSIVE QueryBytes(_)
QueryBytes(q) ==
  IF q = << >> THEN << >>
  ELSE Head(q).k \o (IF Head(q).eq THEN << "=" >> \o Chars(Head(q).v) ELSE << >>)
       \o (IF Tail(q) = << >> THEN << >> ELSE << "&" >>) \o QueryBytes(Tail(q))

\* the bytes of an atom of the text
AtomBytes(a) ==
  CASE a.kind = "ws" -> << a.c >>
    [] a.kind = "word" -> Chars(a.w)
    [] a.kind = "badurl" -> << "h", "t", "t", "p", ":", "/", "/", "%", "z", "z" >>
    [] a.kind = "url" ->
         << "h", "t", "t", "p", "s", ":", "/", "/" >> \o a.host \o a.path
         \o (IF a.qmark THEN << "?" >> ELSE << >>) \o QueryBytes(a.query) \o Chars(a.frag)

\* c.Text(): the message text as one string
RECURSIVE TextBytes(_)
TextBytes(t) == IF t = << >> THEN << >> ELSE AtomBytes(Head(t)) \o TextBytes(Tail(t))

\* what the HEAD request of ExpandUrl can end in for the URL u: an error,
\* the same URL, a video; and for the links other than /t/abc also a final
\* URL that does not parse, the same URL with a tracking parameter, a photo
\* post with or without query, or a live stream
ExpandOutcomes(u) ==
  { [ kind |-> "error" ],
    [ kind |-> "ok", url |-> String(u) ],
    [ kind |-> "ok", url |-> URL(h_www_tiktok, p_video, << P(n_r, "1"), P(n_id, "1") >>, "") ] }
  \cup (IF u.Path = p_t THEN { }
        ELSE { [ kind |-> "badparse" ],
               [ kind |-> "ok", url |-> String([ u EXCEPT !.RawQuery = u.RawQuery \o << P(n_lang, "en") >> ]) ],
               [ kind |-> "ok", url |-> URL(h_www_tiktok, p_photo, << P(n_r, "1") >>, "") ],
               [ kind |-> "ok", url |-> URL(h_www_tiktok, p_photo, << >>, "") ],
               [ kind |-> "ok", url |-> URL(h_www_tiktok, p_live, << >>, "") ] })

\* image URLs: the server answers 200 for the first and 404 for the second
ImgOK == "https://img/ok.jpg"
ImgBad == "https://img/gone.jpg"

\* the image lists the API may answer with for the post at u
Manifests(u) ==
  IF u.Path = p_bigphoto
  THEN { [ i \in 1..BigImages |-> IF i = 1 THEN ImgBad ELSE ImgOK ] }
  ELSE IF u.Path = p_album
  THEN UNION { [ 1..n -> { ImgOK, ImgBad } ] : n \in 0..AlbumImages }
  ELSE UNION { [ 1..n -> { ImgOK, ImgBad } ] : n \in 0..MaxImages }

\* what the GET request to the tikwm API can end in
Responses(u) ==
  { [ kind |-> k, Images |-> << >> ] : k \in { "neterr", "status", "decode", "code" } }
  \cup { [ kind |-> "ok", Images |-> m ] : m \in Manifests(u) }

---------------------------------------------------------------------------
(* bufio.Scanner with ScanLines, strings.TrimSpace and strings.Fields *)

IsSpace(a) == a.kind = "ws"

\* index of the first newline of r, or 0
FirstNL(r) == IF \E i \in DOMAIN r : r[i] = NL
              THEN CHOOSE i \in DOMAIN r : r[i] = NL /\ \A j \in 1..(i - 1) : r[j] # NL
              ELSE 0

dropCR(line) == IF line # << >> /\ line[Len(line)] = CR
                THEN SubSeq(line, 1, Len(line) - 1)
                ELSE line

\* the next token of ScanLines over r: the line without its end-of-line
\* marker and what follows it; a final line needs no newline
NextLine(r) ==
  LET i == FirstNL(r)
  IN IF i = 0 THEN [ line |-> dropCR(r), rest |-> << >> ]
     ELSE [ line |-> dropCR(SubSeq(r, 1, i - 1)), rest |-> SubSeq(r, i + 1, Len(r)) ]

\* the line does not fit the scanner's buffer: bufio.ErrTooLong
TooLong(r) ==
  LET i == FirstNL(r)
      raw == IF i = 0 THEN r ELSE SubSeq(r, 1, i - 1)
  IN \E j \in DOMAIN raw : raw[j] = LONG

\* strings.TrimSpace(paragraph) == ""
IsBlank(line) == \A i \in DOMAIN line : IsSpace(line[i])

\* strings.Fields
Fields(line) == SelectSeq(line, LAMBDA a : ~IsSpace(a))

---------------------------------------------------------------------------
(* sanitizeURL *)

nil == [ e |-> "nil" ]

\* no download of the call has ended yet: firstFailed is the index of the
\* download that failed first in time (0: none), outOfOrder says that some
\* download ended before one of a lower index
NoneFinished == [ firstFailed |-> 0, outOfOrder |-> FALSE ]
NoCur == [ word |-> BadURL, exp |-> [ kind |-> "none" ], st |-> << >> ]

Init ==
  /\ text \in Texts
  /\ rest = text
  /\ words = << >>
  /\ sb = << >>
  /\ isFirstParagraph = TRUE
  /\ isFirstWordInParagraph = TRUE
  /\ wasSanitized = FALSE
  /\ isTikTokPhotoAlbum = FALSE
  /\ downloadedPhotoPaths = << >>
  /\ originalURLs = << >>
  /\ pc = "handle"
  /\ cur = NoCur
  /\ images = << >>
  /\ spawned = 0
  /\ wstate = << >>
  /\ sem = 0
  /\ wg = 0
  /\ results = << >>
  /\ fetchRet = [ paths |-> << >>, err |-> nil ]
  /\ finished = NoneFinished
  /\ ret = [ kind |-> "running" ]
  /\ hist = << >>
  /\ now = << >>
  /\ disk = { }
  /\ sent = << >>
  /\ sendErr = nil
  /\ batch_i = 0
  /\ deleted = "no"
  /\ hret = [ kind |-> "running" ]

fetchVars == << images, spawned, wstate, sem, wg, results, fetchRet, finished, now >>
handlerVars == << sent, sendErr, batch_i, deleted, hret >>
outVars == << sb, wasSanitized, isTikTokPhotoAlbum, downloadedPhotoPaths, originalURLs, hist >>

\* mutants of Written: no separator; a word that does not parse is skipped
WrittenNoSpace(w) == sb \o << w >>

WrittenSkipsMalformed(w) ==
  IF w.kind = "badurl" THEN sb
  ELSE sb \o (IF isFirstWordInParagraph THEN << >> ELSE << SP >>) \o << w >>

\* the separator written before a word, and the word
Written(w) == sb \o (IF isFirstWordInParagraph THEN << >> ELSE << SP >>) \o << w >>

\* after a word: the next word, or back to scanner.Scan()
NextWord ==
  /\ words' = Tail(words)
  /\ isFirstWordInParagraph' = FALSE
  /\ pc' = IF Tail(words) = << >> THEN "scan" ELSE "word"

\* scanner.Scan() yields a paragraph
ScanParagraph ==
  /\ pc = "scan"
  /\ rest # << >>
  /\ ~TooLong(rest)
  /\ LET nl == NextLine(rest)
     IN /\ rest' = nl.rest
        /\ sb' = IF isFirstParagraph THEN sb ELSE Append(sb, NL)
        /\ isFirstParagraph' = FALSE
        /\ IF IsBlank(nl.line)
           THEN UNCHANGED << words, isFirstWordInParagraph, pc >>
           ELSE /\ words' = Fields(nl.line)
                /\ isFirstWordInParagraph' = TRUE
                /\ pc' = "word"
  /\ UNCHANGED << text, wasSanitized, isTikTokPhotoAlbum, downloadedPhotoPaths,
                  originalURLs, cur, ret, hist >>
  /\ UNCHANGED fetchVars
  /\ UNCHANGED << disk, handlerVars >>

\* scanner.Scan() fails: sanitizeURL returns the scan error
ScanError ==
  /\ pc = "scan"
  /\ rest # << >>
  /\ TooLong(rest)
  /\ pc' = "done"
  /\ ret' = [ kind |-> "returned", sanitizedText |-> << >>, wasSanitized |-> FALSE,
              isTikTokPhotoAlbum |-> FALSE, downloadedPhotoPaths |-> << >>,
              originalURLs |-> << >>, err |-> [ e |-> "ErrTooLong" ] ]
  /\ UNCHANGED << text, rest, words, isFirstParagraph, isFirstWordInParagraph, cur >>
  /\ UNCHANGED outVars
  /\ UNCHANGED fetchVars
  /\ UNCHANGED << disk, handlerVars >>

\* the scanner is at the end of the text: the closing lines of sanitizeURL
Return ==
  /\ pc = "scan"
  /\ rest = << >>
  /\ LET album == isTikTokPhotoAlbum /\ Len(downloadedPhotoPaths) > 0
     IN /\ wasSanitized' = (wasSanitized \/ album)
        /\ isTikTokPhotoAlbum' = album
        /\ ret' = [ kind |-> "returned", sanitizedText |-> sb,
                    wasSanitized |-> (wasSanitized \/ album),
                    isTikTokPhotoAlbum |-> album,
                    downloadedPhotoPaths |-> downloadedPhotoPaths,
                    originalURLs |-> originalURLs, err |-> nil ]
  /\ pc' = "done"
  /\ UNCHANGED << text, rest, words, sb, isFirstParagraph, isFirstWordInParagraph,
                  downloadedPhotoPaths, originalURLs, cur, hist >>
  /\ UNCHANGED fetchVars
  /\ UNCHANGED << disk, handlerVars >>

\* a word that is not URL-shaped is copied
PlainWord ==
  /\ pc = "word"
  /\ ~containsURL(Head(words))
  /\ sb' = Written(Head(words))
  /\ NextWord
  /\ UNCHANGED << text, rest, isFirstParagraph, wasSanitized, isTikTokPhotoAlbum,
                  downloadedPhotoPaths, originalURLs, cur, ret, hist >>
  /\ UNCHANGED fetchVars
  /\ UNCHANGED << disk, handlerVars >>

\* mutant of MalformedWord: the word is appended to originalURLs only after
\* it has parsed
MalformedWordNotListed ==
  /\ pc = "word"
  /\ containsURL(Head(words))
  /\ ParseFails(Head(words))
  /\ sb' = Written(Head(words))
  /\ hist' = Append(hist, [ word |-> Head(words), exp |-> [ kind |-> "none" ],
                            work |-> EmptyURL, strip |-> EmptyURL, fetch |-> "none",
                            paths |-> << >>, out |-> Head(words), san |-> FALSE ])
  /\ NextWord
  /\ UNCHANGED << text, rest, isFirstParagraph, wasSanitized, isTikTokPhotoAlbum,
                  downloadedPhotoPaths,
                  originalURLs, cur, ret >>
  /\ UNCHANGED fetchVars
  /\ UNCHANGED << disk, handlerVars >>

\* mutant of MalformedWord: the word that does not parse counts as a change
MalformedWordFlagged ==
  /\ pc = "word"
  /\ containsURL(Head(words))
  /\ ParseFails(Head(words))
  /\ originalURLs' = Append(originalURLs, Head(words))
  /\ sb' = Written(Head(words))
  /\ wasSanitized' = TRUE
  /\ hist' = Append(hist, [ word |-> Head(words), exp |-> [ kind |-> "none" ],
                            work |-> EmptyURL, strip |-> EmptyURL, fetch |-> "none",
                            paths |-> << >>, out |-> Head(words), san |-> FALSE ])
  /\ NextWord
  /\ UNCHANGED << text, rest, isFirstParagraph, isTikTokPhotoAlbum,
                  downloadedPhotoPaths, cur, ret >>
  /\ UNCHANGED fetchVars
  /\ UNCHANGED << disk, handlerVars >>

\* a URL-shaped word that url.Parse rejects is copied
MalformedWord ==
  /\ pc = "word"
  /\ containsURL(Head(words))
  /\ ParseFails(Head(words))
  /\ originalURLs' = Append(originalURLs, Head(words))
  /\ sb' = Written(Head(words))
  /\ hist' = Append(hist, [ word |-> Head(words), exp |-> [ kind |-> "none" ],
                            work |-> EmptyURL, strip |-> EmptyURL, fetch |-> "none",
                            paths |-> << >>, out |-> Head(words), san |-> FALSE ])
  /\ NextWord
  /\ UNCHANGED << text, rest, isFirstParagraph, wasSanitized, isTikTokPhotoAlbum,
                  downloadedPhotoPaths, cur, ret >>
  /\ UNCHANGED fetchVars
  /\ UNCHANGED << disk, handlerVars >>

\* the locals after url.Parse and the TikTok URL expansion, e being the
\* outcome of ExpandUrl and of parsing its result
Expanded(w, e) ==
  AfterExpand([ u |-> Parse(w), san |-> FALSE, processedWord |-> w ], e)

ExpandChoices(w) ==
  IF NeedsExpand(Parse(w)) THEN ExpandOutcomes(Parse(w)) ELSE { [ kind |-> "none" ] }

\* a URL word that is not a photo post: parameters and domain replacements
URLWord ==
  /\ pc = "word"
  /\ containsURL(Head(words))
  /\ ~ParseFails(Head(words))
  /\ \E e \in ExpandChoices(Head(words)) :
       LET st1 == Expanded(Head(words), e)
       IN /\ ~IsPhoto(st1.u)
          /\ \E o \in Orders(st1.u) :
               LET st2 == General(st1, o)
               IN /\ sb' = Written(st2.processedWord)
                  /\ wasSanitized' = (wasSanitized \/ st2.san)
                  /\ hist' = Append(hist, [ word |-> Head(words), exp |-> e,
                                            work |-> st1.u, strip |-> StripParams(st1, o).u,
                                            fetch |-> "none", paths |-> << >>,
                                            out |-> st2.processedWord, san |-> st2.san ])
  /\ originalURLs' = Append(originalURLs, Head(words))
  /\ NextWord
  /\ UNCHANGED << text, rest, isFirstParagraph, isTikTokPhotoAlbum,
                  downloadedPhotoPaths, cur, ret >>
  /\ UNCHANGED fetchVars
  /\ UNCHANGED << disk, handlerVars >>

\* a URL word that is a photo post: fetchTikTokPhotos is called
PhotoWord ==
  /\ pc = "word"
  /\ containsURL(Head(words))
  /\ ~ParseFails(Head(words))
  /\ \E e \in ExpandChoices(Head(words)) :
       LET st1 == Expanded(Head(words), e)
       IN /\ IsPhoto(st1.u)
          /\ cur' = [ word |-> Head(words), exp |-> e, st |-> st1 ]
  /\ originalURLs' = Append(originalURLs, Head(words))
  /\ isTikTokPhotoAlbum' = TRUE
  /\ pc' = "fetch"
  /\ UNCHANGED << text, rest, words, sb, isFirstParagraph, isFirstWordInParagraph,
                  wasSanitized, downloadedPhotoPaths, ret, hist >>
  /\ UNCHANGED fetchVars
  /\ UNCHANGED << disk, handlerVars >>

\* fetchTikTokPhotos has returned: the rest of the photo branch
PhotoReturn ==
  /\ pc = "fetched"
  /\ LET st2 == PhotoStrip(cur.st)
         failed == fetchRet.err # nil
     IN /\ isTikTokPhotoAlbum' = ~failed
        /\ downloadedPhotoPaths' = IF failed THEN downloadedPhotoPaths
                                   ELSE downloadedPhotoPaths \o fetchRet.paths
        /\ sb' = Written(st2.processedWord)
        /\ wasSanitized' = (wasSanitized \/ st2.san)
        /\ hist' = Append(hist, [ word |-> cur.word, exp |-> cur.exp,
                                  work |-> cur.st.u, strip |-> cur.st.u,
                                  fetch |-> IF failed THEN fetchRet.err.e ELSE "ok",
                                  paths |-> fetchRet.paths,
                                  out |-> st2.processedWord, san |-> st2.san ])
  /\ cur' = NoCur
  /\ images' = << >>
  /\ spawned' = 0
  /\ wstate' = << >>
  /\ results' = << >>
  /\ fetchRet' = [ paths |-> << >>, err |-> nil ]
  /\ finished' = NoneFinished
  /\ now' = << >>
  /\ NextWord
  /\ UNCHANGED << text, rest, isFirstParagraph, originalURLs, ret, sem, wg >>
  /\ UNCHANGED << disk, handlerVars >>

---------------------------------------------------------------------------
(* fetchTikTokPhotos and downloadImage *)

\* the file name of downloadImage: the clock reading, the hash of the image
\* URL and the extension.  The hash is the URL itself (no two URLs of the
\* model share their sha256 prefix), and the extension, a function of the
\* URL, is left to it.  A clock reading is the call it is made in and the
\* tick of the clock within that call.
filename(imageURL, at) ==
  [ UnixNano |-> [ post |-> at.post, tick |-> at.now ], hashStr |-> imageURL ]

\* the empty string as a path.  A path is the file name, with the call that
\* returned it (which post, which image) as its history
NoPath ==
  [ post |-> 0, img |-> 0,
    file |-> [ UnixNano |-> [ post |-> 0, tick |-> 0 ], hashStr |-> "" ] ]

\* downloadImage: a GET of the image URL; at is the call (which post, which
\* image, which clock tick)
downloadImage(imageURL, at) ==
  IF imageURL = ImgOK
  THEN [ path |-> [ post |-> at.post, img |-> at.img, file |-> filename(imageURL, at) ],
         err |-> nil ]
  ELSE [ path |-> NoPath, err |-> [ e |-> "download", img |-> at.img ] ]

\* the cache directory after a downloadImage call that returned r: os.Create
\* makes the file, or truncates the file of that name
Created(r) == IF r.err = nil THEN disk \cup { r.path.file } ELSE disk

\* the clock readings of the n goroutines of a call for the post at u, as
\* ticks of the clock: every reading in a tick of its own, and for the album
\* post also all goroutines running within one tick and reading one value
Clocks(u, n) ==
  IF u.Path = p_album
  THEN { [ k \in 1..n |-> k ], [ k \in 1..n |-> 1 ] }
  ELSE { [ k \in 1..n |-> k ] }

\* the request fails, the status is not 200, the body does not decode, the
\* code is not 0 or the image list is empty: an error, before any download
FetchFail ==
  /\ pc = "fetch"
  /\ \E r \in Responses(cur.st.u) :
       /\ r.kind # "ok" \/ r.Images = << >>
       /\ fetchRet' = [ paths |-> << >>,
                        err |-> [ e |-> IF r.kind = "ok" THEN "noimages" ELSE r.kind ] ]
  /\ pc' = "fetched"
  /\ UNCHANGED << text, rest, words, isFirstParagraph, isFirstWordInParagraph, cur, ret,
                  images, now, spawned, wstate, sem, wg, results, finished >>
  /\ UNCHANGED outVars
  /\ UNCHANGED << disk, handlerVars >>

\* the manifest lists images: the semaphore, the WaitGroup and the results
\* slice are created
FetchManifest ==
  /\ pc = "fetch"
  /\ \E r \in Responses(cur.st.u) :
       /\ r.kind = "ok" /\ r.Images # << >>
       /\ images' = r.Images
       /\ results' = [ i \in DOMAIN r.Images |-> [ path |-> NoPath, err |-> nil ] ]
       /\ wstate' = [ i \in DOMAIN r.Images |-> "none" ]
       /\ now' \in Clocks(cur.st.u, Len(r.Images))
  /\ spawned' = 0
  /\ sem' = 0
  /\ wg' = 0
  /\ pc' = "spawn"
  /\ UNCHANGED << text, rest, words, isFirstParagraph, isFirstWordInParagraph, cur, ret,
                  fetchRet, finished >>
  /\ UNCHANGED outVars
  /\ UNCHANGED << disk, handlerVars >>

\* one turn of the loop: wg.Add(1) and the go statement
Spawn ==
  /\ pc = "spawn"
  /\ spawned < Len(images)
  /\ wg' = wg + 1
  /\ spawned' = spawned + 1
  /\ wstate' = [ wstate EXCEPT ![spawned + 1] = "waiting" ]
  /\ UNCHANGED << text, rest, words, isFirstParagraph, isFirstWordInParagraph, cur, ret,
                  pc, images, now, sem, results, fetchRet, finished >>
  /\ UNCHANGED outVars
  /\ UNCHANGED << disk, handlerVars >>

\* mutant of Acquire: the goroutine does not wait for a free slot
AcquireUnbounded(idx) ==
  /\ wstate[idx] = "waiting"
  /\ sem' = sem + 1
  /\ wstate' = [ wstate EXCEPT ![idx] = "downloading" ]
  /\ UNCHANGED << text, rest, words, isFirstParagraph, isFirstWordInParagraph, cur, ret,
                  pc, images, now, spawned, wg, results, fetchRet, finished >>
  /\ UNCHANGED outVars
  /\ UNCHANGED << disk, handlerVars >>

\* goroutine idx: sem <- struct{}{} (blocks while the channel is full)
Acquire(idx) ==
  /\ wstate[idx] = "waiting"
  /\ sem < maxConcurrentDownloads
  /\ sem' = sem + 1
  /\ wstate' = [ wstate EXCEPT ![idx] = "downloading" ]
  /\ UNCHANGED << text, rest, words, isFirstParagraph, isFirstWordInParagraph, cur, ret,
                  pc, images, now, spawned, wg, results, fetchRet, finished >>
  /\ UNCHANGED outVars
  /\ UNCHANGED << disk, handlerVars >>

\* the history of the call after the download of goroutine idx has ended
\* with the result r
Ended(idx, r) ==
  [ firstFailed |-> IF finished.firstFailed = 0 /\ r.err # nil THEN idx
                    ELSE finished.firstFailed,
    outOfOrder |-> (finished.outOfOrder \/ \E i \in 1..(idx - 1) : wstate[i] # "done") ]

\* mutants of Finish: the result goes to the first slot not written yet
\* (results in completion order); wg.Done() is not called
FinishFirstFree(idx) ==
  /\ wstate[idx] = "downloading"
  /\ LET r == downloadImage(images[idx], [ post |-> Len(originalURLs), img |-> idx, now |-> now[idx] ])
         free == { i \in DOMAIN results : results[i] = [ path |-> NoPath, err |-> nil ] }
         slot == CHOOSE i \in free : \A k \in free : i <= k
     IN /\ results' = [ results EXCEPT ![slot] = r ]
        /\ finished' = Ended(idx, r)
        /\ disk' = Created(r)
  /\ sem' = sem - 1
  /\ wg' = wg - 1
  /\ wstate' = [ wstate EXCEPT ![idx] = "done" ]
  /\ UNCHANGED << text, rest, words, isFirstParagraph, isFirstWordInParagraph, cur, ret,
                  pc, images, now, spawned, fetchRet >>
  /\ UNCHANGED outVars
  /\ UNCHANGED handlerVars

FinishNoDone(idx) ==
  /\ wstate[idx] = "downloading"
  /\ LET r == downloadImage(images[idx], [ post |-> Len(originalURLs), img |-> idx, now |-> now[idx] ])
     IN /\ results' = [ results EXCEPT ![idx] = r ]
        /\ finished' = Ended(idx, r)
        /\ disk' = Created(r)
  /\ sem' = sem - 1
  /\ wstate' = [ wstate EXCEPT ![idx] = "done" ]
  /\ UNCHANGED << text, rest, words, isFirstParagraph, isFirstWordInParagraph, cur, ret,
                  pc, images, now, spawned, wg, fetchRet >>
  /\ UNCHANGED outVars
  /\ UNCHANGED handlerVars

\* goroutine idx: downloadImage returns, its result is stored, and the
\* deferred calls run: <-sem, then wg.Done().  One step: from the return of
\* downloadImage to its end the goroutine never blocks (it holds a slot of
\* sem, Done does not wait) and writes only its own slot of results.
Finish(idx) ==
  /\ wstate[idx] = "downloading"
  /\ LET r == downloadImage(images[idx], [ post |-> Len(originalURLs), img |-> idx, now |-> now[idx] ])
     IN /\ results' = [ results EXCEPT ![idx] = r ]
        /\ finished' = Ended(idx, r)
        /\ disk' = Created(r)
  /\ sem' = sem - 1
  /\ wg' = wg - 1
  /\ wstate' = [ wstate EXCEPT ![idx] = "done" ]
  /\ UNCHANGED << text, rest, words, isFirstParagraph, isFirstWordInParagraph, cur, ret,
                  pc, images, now, spawned, fetchRet >>
  /\ UNCHANGED outVars
  /\ UNCHANGED handlerVars

\* the paths of the results that succeeded, in slice order
RECURSIVE successfulPaths(_)
successfulPaths(res) ==
  IF res = << >> THEN << >>
  ELSE (IF Head(res).err = nil /\ Head(res).path # NoPath THEN << Head(res).path >> ELSE << >>)
       \o successfulPaths(Tail(res))

\* mutant of firstErr: the last non-nil error of the results
RECURSIVE lastErr(_)
lastErr(res) ==
  IF res = << >> THEN nil
  ELSE IF res[Len(res)].err # nil THEN res[Len(res)].err
  ELSE lastErr(SubSeq(res, 1, Len(res) - 1))

\* the first non-nil error of the results, in slice order
RECURSIVE firstErr(_)
firstErr(res) ==
  IF res = << >> THEN nil
  ELSE IF Head(res).err # nil THEN Head(res).err
  ELSE firstErr(Tail(res))

\* mutant of Aggregate: one failed download fails the call
AggregateFailFast(res) ==
  IF firstErr(res) # nil
  THEN [ paths |-> << >>, err |-> [ e |-> "allfailed", first |-> firstErr(res) ] ]
  ELSE [ paths |-> successfulPaths(res), err |-> nil ]

\* what fetchTikTokPhotos returns for the results slice
Aggregate(res) ==
  IF Len(successfulPaths(res)) = 0
  THEN [ paths |-> << >>,
         err |-> IF firstErr(res) # nil
                 THEN [ e |-> "allfailed", first |-> firstErr(res) ]
                 ELSE [ e |-> "nonesaved" ] ]
  ELSE [ paths |-> successfulPaths(res), err |-> nil ]

\* mutant of WaitReturn: the function returns as soon as one download is done
WaitReturnEarly ==
  /\ pc = "spawn"
  /\ spawned = Len(images)
  /\ \E i \in DOMAIN wstate : wstate[i] = "done"
  /\ fetchRet' = Aggregate(results)
  /\ pc' = "fetched"
  /\ UNCHANGED << text, rest, words, isFirstParagraph, isFirstWordInParagraph, cur, ret,
                  images, now, spawned, wstate, sem, wg, results, finished >>
  /\ UNCHANGED outVars
  /\ UNCHANGED << disk, handlerVars >>

\* wg.Wait() returns, the results are aggregated, fetchTikTokPhotos returns
WaitReturn ==
  /\ pc = "spawn"
  /\ spawned = Len(images)
  /\ wg = 0
  /\ fetchRet' = Aggregate(results)
  /\ pc' = "fetched"
  /\ UNCHANGED << text, rest, words, isFirstParagraph, isFirstWordInParagraph, cur, ret,
                  images, now, spawned, wstate, sem, wg, results, finished >>
  /\ UNCHANGED outVars
  /\ UNCHANGED << disk, handlerVars >>

---------------------------------------------------------------------------
(* handleTextMessage *)

\* mutant of HasNoCut: only the word nocut on its own counts
HasNoCutWord(t) == \E k \in DOMAIN t : t[k] = NoCutWord

\* strings.Contains(messageText, msgMarkerNoCut)
HasNoCut(t) == Contains(TextBytes(t), msgMarkerNoCut)

\* c.Sender() is nil: the handler returns
NoSender ==
  /\ pc = "handle"
  /\ pc' = "handled"
  /\ hret' = [ kind |-> "returned", err |-> nil ]
  /\ UNCHANGED << text, rest, words, isFirstParagraph, isFirstWordInParagraph, cur, ret,
                  disk, sent, sendErr, batch_i, deleted >>
  /\ UNCHANGED outVars
  /\ UNCHANGED fetchVars

\* the text holds the marker nocut: the handler returns
NoCut ==
  /\ pc = "handle"
  /\ HasNoCut(text)
  /\ pc' = "handled"
  /\ hret' = [ kind |-> "returned", err |-> nil ]
  /\ UNCHANGED << text, rest, words, isFirstParagraph, isFirstWordInParagraph, cur, ret,
                  disk, sent, sendErr, batch_i, deleted >>
  /\ UNCHANGED outVars
  /\ UNCHANGED fetchVars

\* the handler calls sanitizeURL(messageText)
CallSanitize ==
  /\ pc = "handle"
  /\ ~HasNoCut(text)
  /\ pc' = "scan"
  /\ UNCHANGED << text, rest, words, isFirstParagraph, isFirstWordInParagraph, cur, ret,
                  disk >>
  /\ UNCHANGED outVars
  /\ UNCHANGED fetchVars
  /\ UNCHANGED handlerVars

\* mutant of HandleError: the handler goes on after an error of sanitizeURL
HandleErrorIgnored ==
  /\ pc = "done"
  /\ ret.err # nil
  /\ pc' = "finish"
  /\ UNCHANGED << text, rest, words, isFirstParagraph, isFirstWordInParagraph, cur, ret,
                  disk >>
  /\ UNCHANGED outVars
  /\ UNCHANGED fetchVars
  /\ UNCHANGED handlerVars

\* sanitizeURL returned an error: the handler returns it
HandleError ==
  /\ pc = "done"
  /\ ret.err # nil
  /\ pc' = "handled"
  /\ hret' = [ kind |-> "returned", err |-> ret.err ]
  /\ UNCHANGED << text, rest, words, isFirstParagraph, isFirstWordInParagraph, cur, ret,
                  disk, sent, sendErr, batch_i, deleted >>
  /\ UNCHANGED outVars
  /\ UNCHANGED fetchVars

\* !wasSanitized: the handler returns
HandleUnchanged ==
  /\ pc = "done"
  /\ ret.err = nil
  /\ ~ret.wasSanitized
  /\ pc' = "handled"
  /\ hret' = [ kind |-> "returned", err |-> nil ]
  /\ UNCHANGED << text, rest, words, isFirstParagraph, isFirstWordInParagraph, cur, ret,
                  disk, sent, sendErr, batch_i, deleted >>
  /\ UNCHANGED outVars
  /\ UNCHANGED fetchVars

\* the album branch is entered: the batch loop starts
EnterAlbum ==
  /\ pc = "done"
  /\ ret.err = nil
  /\ ret.wasSanitized
  /\ ret.isTikTokPhotoAlbum /\ Len(ret.downloadedPhotoPaths) > 0
  /\ batch_i' = 0
  /\ pc' = "batch"
  /\ UNCHANGED << text, rest, words, isFirstParagraph, isFirstWordInParagraph, cur, ret,
                  disk, sent, sendErr, deleted, hret >>
  /\ UNCHANGED outVars
  /\ UNCHANGED fetchVars

\* the album of the batch that starts after the photo number start: the
\* photos downloadedPhotoPaths[i:end]; the first one has the caption, which
\* names the part when there are several.  The caption text itself (user
\* name, sanitized message) is left out.
Album(paths, start) ==
  LET n == Len(paths)
      end == IF start + maxPhotosPerMessage > n THEN n ELSE start + maxPhotosPerMessage
      totalParts == (n + maxPhotosPerMessage - 1) \div maxPhotosPerMessage
      partNum == (start \div maxPhotosPerMessage) + 1
  IN [ j \in 1..(end - start) |->
         [ File |-> paths[start + j],
           Caption |-> IF j = 1
                       THEN [ set |-> TRUE, part |-> IF totalParts > 1 THEN partNum ELSE 0,
                              total |-> IF totalParts > 1 THEN totalParts ELSE 0 ]
                       ELSE [ set |-> FALSE, part |-> 0, total |-> 0 ] ] ]

\* mutant of SendAlbum: the loop goes on after a batch that failed
SendAlbumGoesOn ==
  /\ pc = "batch"
  /\ batch_i < Len(ret.downloadedPhotoPaths)
  /\ \E ok \in BOOLEAN :
       /\ sent' = Append(sent, [ kind |-> "album", ok |-> ok,
                                 album |-> Album(ret.downloadedPhotoPaths, batch_i) ])
       /\ sendErr' = IF ok THEN sendErr ELSE [ e |-> "batch", at |-> batch_i + 1 ]
       /\ batch_i' = batch_i + maxPhotosPerMessage
  /\ UNCHANGED << text, rest, words, isFirstParagraph, isFirstWordInParagraph, cur, ret,
                  pc, disk, deleted, hret >>
  /\ UNCHANGED outVars
  /\ UNCHANGED fetchVars

\* one turn of the batch loop: the album is built and b.SendAlbum is called;
\* it succeeds, or it fails and the loop is left
SendAlbum ==
  /\ pc = "batch"
  /\ sendErr = nil
  /\ batch_i < Len(ret.downloadedPhotoPaths)
  /\ \E ok \in BOOLEAN :
       /\ sent' = Append(sent, [ kind |-> "album", ok |-> ok,
                                 album |-> Album(ret.downloadedPhotoPaths, batch_i) ])
       /\ sendErr' = IF ok THEN nil ELSE [ e |-> "batch", at |-> batch_i + 1 ]
       /\ batch_i' = IF ok THEN batch_i + maxPhotosPerMessage ELSE batch_i
  /\ UNCHANGED << text, rest, words, isFirstParagraph, isFirstWordInParagraph, cur, ret,
                  pc, disk, deleted, hret >>
  /\ UNCHANGED outVars
  /\ UNCHANGED fetchVars

\* the batch loop has ended: os.Remove of every downloaded photo
Cleanup ==
  /\ pc = "batch"
  /\ sendErr # nil \/ batch_i >= Len(ret.downloadedPhotoPaths)
  /\ disk' = disk \ { ret.downloadedPhotoPaths[k].file : k \in DOMAIN ret.downloadedPhotoPaths }
  /\ pc' = "finish"
  /\ UNCHANGED << text, rest, words, isFirstParagraph, isFirstWordInParagraph, cur, ret >>
  /\ UNCHANGED outVars
  /\ UNCHANGED fetchVars
  /\ UNCHANGED handlerVars

\* the other branch: the sanitized text is sent with b.Send
SendText ==
  /\ pc = "done"
  /\ ret.err = nil
  /\ ret.wasSanitized
  /\ ~(ret.isTikTokPhotoAlbum /\ Len(ret.downloadedPhotoPaths) > 0)
  /\ \E ok \in BOOLEAN :
       /\ sent' = Append(sent, [ kind |-> "text", ok |-> ok, text |-> ret.sanitizedText ])
       /\ sendErr' = IF ok THEN nil ELSE [ e |-> "send" ]
  /\ pc' = "finish"
  /\ UNCHANGED << text, rest, words, isFirstParagraph, isFirstWordInParagraph, cur, ret,
                  disk, batch_i, deleted, hret >>
  /\ UNCHANGED outVars
  /\ UNCHANGED fetchVars

\* sendErr != nil: the handler returns it
SendFailed ==
  /\ pc = "finish"
  /\ sendErr # nil
  /\ pc' = "handled"
  /\ hret' = [ kind |-> "returned", err |-> sendErr ]
  /\ UNCHANGED << text, rest, words, isFirstParagraph, isFirstWordInParagraph, cur, ret,
                  disk, sent, sendErr, batch_i, deleted >>
  /\ UNCHANGED outVars
  /\ UNCHANGED fetchVars

\* mutants of Delete: the original is deleted whatever the send did; a
\* failed delete is returned as the handler's error
DeleteAnyway ==
  /\ pc = "finish"
  /\ \E ok \in BOOLEAN : deleted' = IF ok THEN "yes" ELSE "failed"
  /\ pc' = "handled"
  /\ hret' = [ kind |-> "returned", err |-> sendErr ]
  /\ UNCHANGED << text, rest, words, isFirstParagraph, isFirstWordInParagraph, cur, ret,
                  disk, sent, sendErr, batch_i >>
  /\ UNCHANGED outVars
  /\ UNCHANGED fetchVars

\* the replacement was sent: b.Delete of the original message; its error is
\* logged and the handler returns nil
Delete ==
  /\ pc = "finish"
  /\ sendErr = nil
  /\ \E ok \in BOOLEAN : deleted' = IF ok THEN "yes" ELSE "failed"
  /\ pc' = "handled"
  /\ hret' = [ kind |-> "returned", err |-> nil ]
  /\ UNCHANGED << text, rest, words, isFirstParagraph, isFirstWordInParagraph, cur, ret,
                  disk, sent, sendErr, batch_i >>
  /\ UNCHANGED outVars
  /\ UNCHANGED fetchVars

---------------------------------------------------------------------------
(* the specifications *)

Next ==
  \/ ScanParagraph
  \/ ScanError
  \/ Return
  \/ PlainWord
  \/ MalformedWord
  \/ URLWord
  \/ PhotoWord
  \/ PhotoReturn
  \/ FetchFail
  \/ FetchManifest
  \/ Spawn
  \/ \E idx \in DOMAIN wstate : Acquire(idx)
  \/ \E idx \in DOMAIN wstate : Finish(idx)
  \/ WaitReturn
  \/ NoSender
  \/ NoCut
  \/ CallSanitize
  \/ HandleError
  \/ HandleUnchanged
  \/ EnterAlbum
  \/ SendAlbum
  \/ Cleanup
  \/ SendText
  \/ SendFailed
  \/ Delete

\* handleTextMessage, and in it sanitizeURL, on every text of Texts
Spec == Init /\ [][Next]_vars

\* sanitizeURL has reached its call of fetchTikTokPhotos for a text that is
\* one photo post
InitFetch ==
  /\ \E p \in { p_photo, p_album, p_bigphoto } :
       LET w == URL(h_www_tiktok, p, << >>, "")
       IN /\ text = << w >>
          /\ originalURLs = << w >>
          /\ cur = [ word |-> w, exp |-> [ kind |-> "none" ], st |-> Expanded(w, [ kind |-> "none" ]) ]
  /\ rest = << >>
  /\ words = text
  /\ sb = << >>
  /\ isFirstParagraph = FALSE
  /\ isFirstWordInParagraph = TRUE
  /\ wasSanitized = FALSE
  /\ isTikTokPhotoAlbum = TRUE
  /\ downloadedPhotoPaths = << >>
  /\ pc = "fetch"
  /\ images = << >>
  /\ spawned = 0
  /\ wstate = << >>
  /\ sem = 0
  /\ wg = 0
  /\ results = << >>
  /\ fetchRet = [ paths |-> << >>, err |-> nil ]
  /\ finished = NoneFinished
  /\ ret = [ kind |-> "running" ]
  /\ hist = << >>
  /\ now = << >>
  /\ disk = { }
  /\ sent = << >>
  /\ sendErr = nil
  /\ batch_i = 0
  /\ deleted = "no"
  /\ hret = [ kind |-> "running" ]

NextFetch ==
  \/ FetchFail
  \/ FetchManifest
  \/ Spawn
  \/ \E idx \in DOMAIN wstate : Acquire(idx)
  \/ \E idx \in DOMAIN wstate : Finish(idx)
  \/ WaitReturn

\* one call of fetchTikTokPhotos
SpecFetch == InitFetch /\ [][NextFetch]_vars

\* one call of fetchTikTokPhotos in which the main goroutine and every
\* started goroutine keep running while they can take a step, and every
\* downloadImage call, every request returns
SpecFetchLive == SpecFetch /\ WF_vars(NextFetch)

\* the paths of n photos of the post, each downloaded in a tick of its own
PhotoPaths(n) ==
  [ k \in 1..n |-> downloadImage(ImgOK, [ post |-> 1, img |-> k, now |-> k ]).path ]

\* what sanitizeURL leaves for the one-word text w, its manifest request
\* having ended as fetch says with n photos downloaded
Outcome(w, fetch, n) ==
  LET st == PhotoStrip(Expanded(w, [ kind |-> "none" ]))
  IN [ text |-> << w >>, sb |-> << st.processedWord >>, san |-> (st.san \/ n > 0),
       album |-> (n > 0), paths |-> PhotoPaths(n), urls |-> << w >>, err |-> nil,
       hist |-> << [ word |-> w, exp |-> [ kind |-> "none" ], work |-> Parse(w),
                     strip |-> Parse(w), fetch |-> fetch, paths |-> PhotoPaths(n),
                     out |-> st.processedWord, san |-> st.san ] >> ]

\* sanitizeURL has returned to handleTextMessage: for a large photo post
\* with 1 to MaxPhotos photos, for a photo post whose manifest request
\* failed, with and without a query to strip, and for a text that cannot be
\* scanned
InitHandle ==
  /\ \E o \in { Outcome(URL(h_www_tiktok, p_bigphoto, << >>, ""), "ok", n) : n \in 1..MaxPhotos }
              \cup { Outcome(URL(h_www_tiktok, p_bigphoto, q, ""), "neterr", 0) :
                       q \in { << >>, << P(n_r, "1") >> } }
              \cup { [ text |-> << LONG >>, sb |-> << >>, san |-> FALSE, album |-> FALSE,
                       paths |-> << >>, urls |-> << >>, err |-> [ e |-> "ErrTooLong" ],
                       hist |-> << >> ] } :
       /\ text = o.text
       /\ rest = IF o.err = nil THEN << >> ELSE o.text
       /\ sb = o.sb
       /\ isFirstParagraph = (o.err # nil)
       /\ wasSanitized = o.san
       /\ isTikTokPhotoAlbum = o.album
       /\ downloadedPhotoPaths = o.paths
       /\ originalURLs = o.urls
       /\ hist = o.hist
       /\ disk = { o.paths[k].file : k \in DOMAIN o.paths }
       /\ ret = [ kind |-> "returned", sanitizedText |-> o.sb, wasSanitized |-> o.san,
                  isTikTokPhotoAlbum |-> o.album, downloadedPhotoPaths |-> o.paths,
                  originalURLs |-> o.urls, err |-> o.err ]
  /\ words = << >>
  /\ isFirstWordInParagraph = (ret.err # nil)
  /\ pc = "done"
  /\ cur = NoCur
  /\ images = << >>
  /\ spawned = 0
  /\ wstate = << >>
  /\ sem = 0
  /\ wg = 0
  /\ results = << >>
  /\ fetchRet = [ paths |-> << >>, err |-> nil ]
  /\ finished = NoneFinished
  /\ now = << >>
  /\ sent = << >>
  /\ sendErr = nil
  /\ batch_i = 0
  /\ deleted = "no"
  /\ hret = [ kind |-> "running" ]

NextHandle ==
  \/ HandleError
  \/ HandleUnchanged
  \/ EnterAlbum
  \/ SendAlbum
  \/ Cleanup
  \/ SendText
  \/ SendFailed
  \/ Delete

\* handleTextMessage from the return of sanitizeURL on
SpecHandle == InitHandle /\ [][NextHandle]_vars

---------------------------------------------------------------------------
(* the properties *)

\* sanitizeURL has just returned; it has returned without error
Returned == pc = "done"
ReturnedOK == IF pc = "done" THEN ret.err = nil ELSE FALSE

IsURLShaped(a) == a.kind \in { "url", "badurl" }

\* the URL-shaped words of a text, in order
URLTokens(t) == SelectSeq(t, IsURLShaped)

\* the expansion of the word of h gave another URL
ExpansionChanged(h) ==
  IF h.exp.kind = "ok" THEN String(Parse(h.exp.url)) # String(Parse(h.word)) ELSE FALSE

\* the URL written for h is not the URL the steps after the expansion started from
Canonicalized(h) == IF h.word.kind = "url" THEN Parse(h.out) # h.work ELSE FALSE

MediaResolved(h) == h.fetch = "ok"

IsPhotoPost(u) == HasSuffix(u.Host, tiktokHostSuffix) /\ Contains(u.Path, tiktokPhotoPathSegment)

\* C1, as stated: changed is true iff some URL word was rewritten by a parameter
\* rule or a domain canonicalization, or a photo album was resolved; a text
\* whose words all come out as they went in, with no photo downloaded, is
\* reported unchanged.
C1_Original ==
  ReturnedOK =>
    /\ ret.wasSanitized <=> \E i \in DOMAIN hist : Canonicalized(hist[i]) \/ MediaResolved(hist[i])
    /\ (\A i \in DOMAIN hist : hist[i].out = hist[i].word /\ ~MediaResolved(hist[i]))
         => ~ret.wasSanitized

\* C1, amended: when sanitizeURL returns no error, changed is true iff some URL
\* word was rewritten by a short-link expansion that gave another URL, by a
\* parameter rule or by a domain canonicalization, or the call reports a photo
\* album.
C1_Changed ==
  ReturnedOK =>
    (ret.wasSanitized <=>
       \/ \E i \in DOMAIN hist : ExpansionChanged(hist[i]) \/ Canonicalized(hist[i])
       \/ ret.isTikTokPhotoAlbum)

\* changed is reported for an expansion alone
C1_Witness ==
  /\ ReturnedOK
  /\ ret.wasSanitized
  /\ ~ret.isTikTokPhotoAlbum
  /\ \E i \in DOMAIN hist : ExpansionChanged(hist[i])
  /\ \A i \in DOMAIN hist : ~Canonicalized(hist[i])

\* shouldRemove of the rule matcher: the name starts with a universal rule
\* string, or with a prefix of a domain rule set whose key the host contains
ShouldRemove(host, paramName) ==
  \/ \E i \in DOMAIN URLRules : HasPrefix(paramName, URLRules[i])
  \/ \E key \in DOMAIN DomainRules :
       Contains(host, key) /\ \E j \in DOMAIN DomainRules[key] : HasPrefix(paramName, DomainRules[key][j])

shouldRemove == [ h \in Hosts, k \in ParamNames |-> ShouldRemove(h, k) ]

\* the word of h went through the parameter stripping step
Stripped(h) == IF h.word.kind = "url" THEN ~IsPhotoPost(h.work) ELSE FALSE

\* C2: the parameter stripping step removes exactly the parameters whose name
\* starts with a universal rule string or with a prefix of a domain rule set
\* whose key is a substring of the host; every other parameter keeps all its
\* values; this for every order in which the maps are iterated.
C2_Strip ==
  \A i \in DOMAIN hist :
    Stripped(hist[i]) =>
      LET q0 == Query(hist[i].work)
          q1 == Query(hist[i].strip)
      IN /\ DOMAIN q1 = { k \in DOMAIN q0 : ~shouldRemove[hist[i].work.Host, k] }
         /\ \A k \in DOMAIN q1 : q1[k] = q0[k]

\* a host with two matching rule sets: one parameter goes, one stays with
\* its two values
C2_Witness ==
  \E i \in DOMAIN hist :
    /\ Stripped(hist[i])
    /\ Cardinality(MatchingKeys(hist[i].work.Host)) = 2
    /\ DOMAIN Query(hist[i].work) # DOMAIN Query(hist[i].strip)
    /\ \E k \in DOMAIN Query(hist[i].strip) : Len(Query(hist[i].strip)[k]) = 2

WellSpaced(t) ==
  /\ \A i \in DOMAIN t : t[i] \notin { TAB, CR }
  /\ \A i \in DOMAIN t : t[i] = SP => /\ 1 < i /\ i < Len(t)
                                     /\ ~IsSpace(t[i - 1]) /\ ~IsSpace(t[i + 1])
  /\ t # << >> => t[Len(t)] # NL

LinesOf(t) ==
  LET segs == Split(t, NL)
  IN IF segs[Len(segs)] = << >> THEN SubSeq(segs, 1, Len(segs) - 1) ELSE segs

\* the whitespace-delimited tokens of a line: its maximal runs of
\* non-whitespace atoms
RECURSIVE TokensAcc(_, _)
TokensAcc(line, run) ==
  IF line = << >> THEN (IF run = << >> THEN << >> ELSE << run >>)
  ELSE IF IsSpace(Head(line))
       THEN (IF run = << >> THEN << >> ELSE << run >>) \o TokensAcc(Tail(line), << >>)
       ELSE TokensAcc(Tail(line), Append(run, Head(line)))

TokensOf(line) == TokensAcc(line, << >>)

\* C4: when sanitizeURL returns no error, every paragraph of the output has as
\* many tokens as the paragraph of the input it comes from, a token that is
\* not URL-shaped stands unchanged at its position, and a URL-shaped token is
\* replaced at its position by one URL word, its original or its sanitized form.
C4_NoTokenDropped ==
  ReturnedOK =>
    LET in == LinesOf(text)
        out == Split(ret.sanitizedText, NL)
    IN IF in = << >> THEN ret.sanitizedText = << >>
       ELSE /\ Len(out) = Len(in)
            /\ \A i \in DOMAIN in :
                 LET a == TokensOf(in[i])
                     b == TokensOf(out[i])
                 IN /\ Len(b) = Len(a)
                    /\ \A j \in DOMAIN a :
                         IF IsURLShaped(a[j][1])
                         THEN /\ Len(b[j]) = 1
                              /\ IsURLShaped(b[j][1])
                              /\ b[j][1] \in { a[j][1] } \cup { hist[k].out : k \in DOMAIN hist }
                         ELSE b[j] = a[j]

\* two paragraphs, a word that does not parse and a URL that is rewritten
C4_Witness ==
  /\ ReturnedOK
  /\ Len(LinesOf(text)) = 2
  /\ \E i \in DOMAIN text : text[i] = BadURL
  /\ \E k \in DOMAIN hist : hist[k].san

\* what is written for the URL word of h, from the word and its own network
\* answers alone; a failed expansion leaves the word as it was parsed
LocalOut(h) ==
  IF h.word.kind = "badurl" THEN h.word
  ELSE LET st0 == [ u |-> Parse(h.word), san |-> FALSE, processedWord |-> h.word ]
           st1 == IF h.exp.kind = "ok" THEN AfterExpand(st0, h.exp) ELSE st0
       IN IF IsPhotoPost(st1.u) THEN PhotoStrip(st1).processedWord
          ELSE General(st1, CHOOSE o \in Orders(st1.u) : TRUE).processedWord

RECURSIVE AllPaths(_)
AllPaths(h) == IF h = << >> THEN << >> ELSE Head(h).paths \o AllPaths(Tail(h))

\* C5: a failure of url.Parse, of ExpandUrl, of parsing the expanded URL or
\* of fetchTikTokPhotos for one word leaves the error nil, every URL word is
\* still processed, what is written for each depends on that word and its own
\* answers only (on the unexpanded URL after a failed expansion), and the
\* paths the other words downloaded are all returned.
C5_LocalFailures ==
  (Returned /\ \A i \in DOMAIN text : text[i] # LONG) =>
    /\ ret.err = nil
    /\ Len(hist) = Len(URLTokens(text))
    /\ \A k \in DOMAIN hist :
         /\ hist[k].word = URLTokens(text)[k]
         /\ hist[k].out = LocalOut(hist[k])
    /\ ret.downloadedPhotoPaths = AllPaths(hist)

\* the expansion of the first URL failed, its host was replaced all the
\* same, and the second URL was rewritten
C5_Witness ==
  /\ Returned
  /\ Len(hist) = 2
  /\ hist[1].exp.kind = "error"
  /\ hist[1].out.host = tiktokCleanHost
  /\ hist[1].out.path = hist[1].word.path
  /\ hist[2].san
  /\ ret.err = nil

\* C6: originalURLs is the sequence of the URL-shaped words of the input, in
\* order and unmodified, the unchanged ones included.
C6_OriginalURLs == ReturnedOK => ret.originalURLs = URLTokens(text)

\* a word that does not parse and a URL that stays as it is are both listed
C6_Witness ==
  /\ ReturnedOK
  /\ Len(ret.originalURLs) = 2
  /\ \E i \in DOMAIN hist : hist[i].word = BadURL
  /\ \E i \in DOMAIN hist : hist[i].word.kind = "url" /\ hist[i].out = hist[i].word
  /\ ~ret.wasSanitized

\* C7: a photo post (host ending with tiktok.com, path containing /photo/,
\* after the expansion) keeps its host and path, loses its whole query, and
\* goes through neither the rules nor the domain replacements, whether or not
\* its photos are fetched.
C7_PhotoPost ==
  \A i \in DOMAIN hist :
    (hist[i].word.kind = "url" /\ IsPhotoPost(hist[i].work)) =>
      /\ hist[i].out = String([ hist[i].work EXCEPT !.RawQuery = << >> ])
      /\ hist[i].out.host = hist[i].work.Host
      /\ hist[i].out.host # tiktokCleanHost
      /\ hist[i].out.query = << >>
      /\ hist[i].fetch # "none"

\* a photo post with a parameter no rule names, its photos fetched
C7_Witness ==
  \E i \in DOMAIN hist :
    /\ IsPhotoPost(hist[i].work)
    /\ \E j \in DOMAIN hist[i].work.RawQuery : hist[i].work.RawQuery[j].k = n_id
    /\ hist[i].fetch = "ok"
    /\ hist[i].out.query = << >>

\* the manifest is refused: status not 200, code not 0, no image
ManifestErrors == { "status", "code", "noimages" }

C8_Fallback(h) ==
  /\ ~ret.isTikTokPhotoAlbum
  /\ ret.downloadedPhotoPaths = << >>
  /\ h.out = String([ h.work EXCEPT !.RawQuery = << >> ])
  /\ \E i \in DOMAIN ret.sanitizedText : ret.sanitizedText[i] = h.out

C8_NoDownload ==
  (pc = "fetched" /\ fetchRet.err.e \in ManifestErrors) =>
    (images = << >> /\ wstate = << >> /\ spawned = 0 /\ sem = 0 /\ wg = 0)

\* C8, as stated: a refused manifest starts no download, and the text whose
\* only URL is that post comes back without album and paths, with the
\* query-stripped URL, changed exactly when the token was altered.
C8_Original ==
  /\ C8_NoDownload
  /\ (ReturnedOK /\ Len(hist) = 1) =>
       (hist[1].fetch \in ManifestErrors =>
          /\ C8_Fallback(hist[1])
          /\ ret.wasSanitized <=> hist[1].out # hist[1].word)

\* C8, amended: ... changed exactly when the expansion gave another URL or
\* the post URL had a query.
C8_NoAlbum ==
  /\ C8_NoDownload
  /\ (ReturnedOK /\ Len(hist) = 1) =>
       (hist[1].fetch \in ManifestErrors =>
          /\ C8_Fallback(hist[1])
          /\ ret.wasSanitized <=> (ExpansionChanged(hist[1]) \/ hist[1].work.RawQuery # << >>))

\* the manifest of a post with a query has no image
C8_Witness ==
  /\ ReturnedOK
  /\ Len(hist) = 1
  /\ hist[1].fetch = "noimages"
  /\ hist[1].work.RawQuery # << >>
  /\ ret.wasSanitized
  /\ ~ret.isTikTokPhotoAlbum

InFlight == { i \in DOMAIN wstate : wstate[i] = "downloading" }

\* C9: at most 10 downloads are in flight at any time, the semaphore holds one
\* token per download in flight, and none is left when the call returns.
C9_Bounded ==
  /\ Cardinality(InFlight) <= maxConcurrentDownloads
  /\ sem = Cardinality(InFlight)
  /\ pc = "fetched" => sem = 0

\* ten downloads in flight, one goroutine waits for a slot
C9_Witness ==
  /\ Cardinality(InFlight) = maxConcurrentDownloads
  /\ \E i \in DOMAIN wstate : wstate[i] = "waiting"

\* C10: fetchTikTokPhotos has not returned while a download it started is
\* pending or in flight; when it returns every goroutine has stored its
\* result, and the returned paths are those of all the downloads that succeeded.
C10_WaitsForAll ==
  (pc = "fetched" /\ images # << >>) =>
    /\ \A i \in DOMAIN images :
         /\ wstate[i] = "done"
         /\ results[i].err # nil \/ results[i].path # NoPath
    /\ Len(fetchRet.paths) = Cardinality({ i \in DOMAIN images : images[i] = ImgOK })

\* the call returns paths although one download of the album failed
C10_Witness ==
  /\ pc = "fetched"
  /\ Len(images) = AlbumImages
  /\ \E i \in DOMAIN results : results[i].err # nil
  /\ Len(fetchRet.paths) = AlbumImages - 1

Unwritten == [ path |-> NoPath, err |-> nil ]

\* the indexes of the images whose download succeeds, in manifest order
OKIndexes ==
  SelectSeq([ i \in DOMAIN images |-> i ], LAMBDA i : images[i] = ImgOK)

\* C11: the paths fetchTikTokPhotos returns are in manifest order whatever
\* the order in which the downloads end: a slot of results is written only
\* by the goroutine of its index, once that goroutine is done, and the paths
\* returned are those of the successful images by increasing index.
C11_ManifestOrder ==
  /\ \A i \in DOMAIN results :
       results[i] # Unwritten =>
         /\ wstate[i] = "done"
         /\ IF results[i].err = nil THEN results[i].path.img = i ELSE results[i].err.img = i
  /\ (pc = "fetched" /\ fetchRet.err = nil) =>
       /\ Len(fetchRet.paths) = Len(OKIndexes)
       /\ \A a \in DOMAIN fetchRet.paths : fetchRet.paths[a].img = OKIndexes[a]
       /\ \A a, b \in DOMAIN fetchRet.paths :
            a < b => fetchRet.paths[a].img < fetchRet.paths[b].img

\* every image of the album succeeded, some download ended before one of a
\* lower index, and the call has returned
C11_Witness ==
  /\ pc = "fetched"
  /\ finished.outOfOrder
  /\ Len(images) = AlbumImages
  /\ Len(fetchRet.paths) = AlbumImages

\* the downloads of the call that failed
FailedDownloads == { i \in DOMAIN results : results[i].err # nil }

\* C12: of M images with k failed downloads, the call returns without error
\* exactly the M - k paths of the others when k < M, and an error without
\* paths when k = M.
C12_PartialFailure ==
  (pc = "fetched" /\ images # << >>) =>
    IF Cardinality(FailedDownloads) < Len(images)
    THEN /\ fetchRet.err = nil
         /\ Len(fetchRet.paths) = Len(images) - Cardinality(FailedDownloads)
         /\ { fetchRet.paths[a].img : a \in DOMAIN fetchRet.paths }
              = (DOMAIN images) \ FailedDownloads
    ELSE /\ fetchRet.err # nil
         /\ fetchRet.paths = << >>

\* two downloads failed and the call returns the paths of the others
C12_Witness ==
  /\ pc = "fetched"
  /\ Cardinality(FailedDownloads) = 2
  /\ Len(images) > 2
  /\ fetchRet.err = nil
  /\ Len(fetchRet.paths) = Len(images) - 2

AllFailed == IF pc = "fetched" THEN fetchRet.err.e = "allfailed" ELSE FALSE

\* C13, as stated: when no image succeeds, the error the call wraps is that
\* of the download that failed first in time.
C13_Original ==
  AllFailed => fetchRet.err.first = results[finished.firstFailed].err

\* C13, amended: when no image succeeds, the error the call wraps is that of
\* the failed download of the lowest manifest index.
C13_FirstError ==
  AllFailed =>
    \E i \in FailedDownloads :
      /\ \A k \in FailedDownloads : i <= k
      /\ fetchRet.err.first = results[i].err

\* every download failed, and the first to fail was not the first image
C13_Witness ==
  /\ AllFailed
  /\ finished.firstFailed > 1
  /\ fetchRet.err.first = results[1].err

\* C14: if every downloadImage call returns, fetchTikTokPhotos returns,
\* whatever the size of the manifest: no goroutine waits for the semaphore
\* forever and wg.Wait() is not blocked forever.
C14_Returns == <>(pc = "fetched")

\* the call has returned for a manifest larger than the semaphore
C14_Witness ==
  /\ pc = "fetched"
  /\ Len(images) > maxConcurrentDownloads
  /\ \A i \in DOMAIN wstate : wstate[i] = "done"

\* the locals with which the steps start on the word w
Fresh(w) == [ u |-> Parse(w), san |-> FALSE, processedWord |-> w ]

\* the steps of sanitizeURL after the expansion, on the word w, under every
\* iteration order of the maps
Canonicalize(w) ==
  IF IsPhotoPost(Parse(w)) THEN { PhotoStrip(Fresh(w)) }
  ELSE { General(Fresh(w), o) : o \in Orders(Parse(w)) }

\* C15: the canonicalization applied to its own output gives the identical
\* string and sets no changed flag: no rule fires again and no host is
\* rewritten again.
C15_Idempotent ==
  \A i \in DOMAIN hist :
    hist[i].word.kind = "url" =>
      \A st \in Canonicalize(hist[i].out) :
        /\ st.processedWord = hist[i].out
        /\ ~st.san

\* a post of the photo platform lost a parameter and got the mirror as host
C15_Witness ==
  \E i \in DOMAIN hist :
    /\ hist[i].san
    /\ hist[i].work.Host # ddInstagramHost
    /\ hist[i].out.host = ddInstagramHost
    /\ hist[i].strip.RawQuery # hist[i].work.RawQuery

\* the pairs of the query raw whose key is in keep, in the order of raw
Surviving(raw, keep) == SelectSeq(raw, LAMBDA p : p.k \in keep)

KeyValue(p) == [ k |-> p.k, v |-> p.v ]

\* C16: when sanitizeURL removes a parameter from a URL, the parameters
\* that survive stand in the output query in the order, duplicates
\* included, in which they stand in the input query.
C16_OrderKept ==
  \A i \in DOMAIN hist :
    (Stripped(hist[i]) /\ DOMAIN Query(hist[i].strip) # DOMAIN Query(hist[i].work)) =>
      LET in == Surviving(hist[i].work.RawQuery, DOMAIN Query(hist[i].strip))
          out == hist[i].strip.RawQuery
      IN /\ Len(out) = Len(in)
         /\ \A j \in DOMAIN in : KeyValue(out[j]) = KeyValue(in[j])

\* C17: a URL whose host is x.com gets the host fixupx.com and is reported
\* changed, also without query; a host that only ends with or contains
\* x.com keeps its name.
C17_XCom ==
  \A i \in DOMAIN hist :
    Stripped(hist[i]) =>
      /\ hist[i].work.Host = xComHost =>
           /\ hist[i].out.host = fixupXHost
           /\ hist[i].san
           /\ wasSanitized
           /\ Returned => ret.wasSanitized
      /\ (hist[i].work.Host # xComHost /\ Contains(hist[i].work.Host, xComHost)) =>
           hist[i].out.host = hist[i].work.Host

\* x.com without query, rewritten and reported
C17_Witness ==
  /\ ReturnedOK
  /\ ret.wasSanitized
  /\ \E i \in DOMAIN hist :
       /\ hist[i].work.Host = xComHost
       /\ hist[i].word.query = << >>
       /\ hist[i].out = [ hist[i].word EXCEPT !.host = fixupXHost ]

\* C18: a URL whose host ends with tiktok.com and whose path has no /photo/:
\* with /live in the path the output has an empty query and the host it had;
\* without, the host is vm.dstn.to and the query is what the rules left.
C18_TikTok ==
  \A i \in DOMAIN hist :
    (Stripped(hist[i]) /\ HasSuffix(hist[i].work.Host, tiktokHostSuffix)) =>
      IF Contains(hist[i].work.Path, tiktokLivePathSegment)
      THEN /\ hist[i].out.query = << >>
           /\ hist[i].out.host = hist[i].work.Host
           /\ hist[i].out.host # tiktokCleanHost
      ELSE /\ hist[i].out.host = tiktokCleanHost
           /\ hist[i].out.query = hist[i].strip.RawQuery
           /\ hist[i].out.path = hist[i].work.Path

\* a live stream whose query had a parameter no rule names
C18_Witness ==
  \E i \in DOMAIN hist :
    /\ Stripped(hist[i])
    /\ hist[i].work.Host = h_www_tiktok
    /\ Contains(hist[i].work.Path, tiktokLivePathSegment)
    /\ hist[i].strip.RawQuery # << >>
    /\ hist[i].out.query = << >>
    /\ hist[i].out.host = h_www_tiktok

\* the path of an Instagram URL after the profile card rule
Collapsed(path) ==
  LET segs == Split(path, "/")
  IN IF Len(segs) >= 3 /\ segs[3] = instagramProfileCardSegment
     THEN << "/" >> \o segs[2]
     ELSE path

\* C19: a URL whose host ends with instagram.com: a path whose second
\* segment is profilecard is cut down to its first segment; the host
\* becomes d.ddinstagram.com iff the path, cut down or not, contains /reel/
\* or /p/, and stays what it was otherwise.
C19_Instagram ==
  \A i \in DOMAIN hist :
    (Stripped(hist[i]) /\ HasSuffix(hist[i].work.Host, instagramHostSuffix)) =>
      LET path == Collapsed(hist[i].work.Path)
      IN /\ hist[i].out.path = path
         /\ hist[i].out.host =
              IF Contains(path, instagramReelPathSegment) \/ Contains(path, instagramPostPathSegment)
              THEN ddInstagramHost
              ELSE hist[i].work.Host

\* /p/profilecard/x is cut down to /p and the host is kept
C19_Witness ==
  \E i \in DOMAIN hist :
    /\ hist[i].work.Host = h_www_instagram
    /\ hist[i].work.Path = p_pcard
    /\ hist[i].out.path = << "/", "p" >>
    /\ hist[i].out.host = h_www_instagram
    /\ hist[i].san

\* a rule written name@domainGlob: its name (a final * is the prefix
\* marker) and its glob
IsScoped(rule) == \E i \in DOMAIN rule : rule[i] = "@"

AtIndex(rule) == CHOOSE i \in DOMAIN rule : rule[i] = "@"

RuleName(rule) ==
  LET n == SubSeq(rule, 1, AtIndex(rule) - 1)
  IN IF n # << >> /\ n[Len(n)] = "*" THEN SubSeq(n, 1, Len(n) - 1) ELSE n

RuleGlob(rule) == SubSeq(rule, AtIndex(rule) + 1, Len(rule))

\* the host matches the glob, a * standing for one or more characters
RECURSIVE GlobMatch(_, _)
GlobMatch(host, glob) ==
  IF glob = << >> THEN host = << >>
  ELSE IF Head(glob) = "*"
       THEN \E n \in 1..Len(host) : GlobMatch(SubSeq(host, n + 1, Len(host)), Tail(glob))
       ELSE /\ host # << >>
            /\ Head(host) = Head(glob)
            /\ GlobMatch(Tail(host), Tail(glob))

\* a scoped rule names the parameter; one whose glob the host matches does
scopedNamed ==
  [ k \in ParamNames |->
      \E r \in DOMAIN URLRules : IsScoped(URLRules[r]) /\ HasPrefix(k, RuleName(URLRules[r])) ]

scopedHit ==
  [ h \in Hosts, k \in ParamNames |->
      \E r \in DOMAIN URLRules :
        /\ IsScoped(URLRules[r])
        /\ HasPrefix(k, RuleName(URLRules[r]))
        /\ GlobMatch(h, RuleGlob(URLRules[r])) ]

\* C20: a universal rule name@domainGlob removes the parameters that start
\* with name on the hosts that match the glob, and leaves them on the other
\* hosts (where no other rule removes them).
C20_ScopedRules ==
  \A i \in DOMAIN hist :
    Stripped(hist[i]) =>
      \A k \in DOMAIN Query(hist[i].work) :
        /\ scopedHit[hist[i].work.Host, k] => k \notin DOMAIN Query(hist[i].strip)
        /\ (scopedNamed[k] /\ ~scopedHit[hist[i].work.Host, k]
             /\ ~shouldRemove[hist[i].work.Host, k])
             => k \in DOMAIN Query(hist[i].strip)

\* the words of a text that url.Parse rejects, in order
Malformed(t) == SelectSeq(t, LAMBDA a : a.kind = "badurl")

\* C21, as stated: a token with the http:// or https:// prefix that does not
\* parse as a URL is written to the output as it is, sets no changed flag,
\* and contributes no entry to originalURLs.
C21_Original ==
  ReturnedOK =>
    /\ Malformed(ret.sanitizedText) = Malformed(text)
    /\ ret.wasSanitized <=>
         (ret.isTikTokPhotoAlbum \/ \E i \in DOMAIN hist : hist[i].word.kind = "url" /\ hist[i].san)
    /\ Malformed(ret.originalURLs) = << >>

\* C21: a token with the http:// or https:// prefix that does not parse as a
\* URL is written to the output as it is and sets no changed flag (changed is
\* what the tokens that parse and the album make it), and it is listed in
\* originalURLs at its place among the URL-shaped tokens of the text.
C21_Malformed ==
  ReturnedOK =>
    /\ Malformed(ret.sanitizedText) = Malformed(text)
    /\ ret.wasSanitized <=>
         (ret.isTikTokPhotoAlbum \/ \E i \in DOMAIN hist : hist[i].word.kind = "url" /\ hist[i].san)
    /\ Len(ret.originalURLs) = Len(URLTokens(text))
    /\ \A i \in DOMAIN ret.originalURLs :
         (URLTokens(text)[i].kind = "badurl") <=> (ret.originalURLs[i].kind = "badurl")

\* a text with a word that does not parse after a URL that is changed
C21_Witness ==
  /\ ReturnedOK
  /\ ret.wasSanitized
  /\ Len(ret.originalURLs) = 2
  /\ ret.originalURLs[1].kind = "url"
  /\ ret.originalURLs[2] = BadURL
  /\ Malformed(ret.sanitizedText) = << BadURL >>

\* the texts of the model that hold the marker
MarkedTexts == { t \in Texts : Contains(TextBytes(t), msgMarkerNoCut) }

\* C22: when the message text contains the substring nocut anywhere, as a
\* word, inside a longer word or inside a URL, handleTextMessage does nothing
\* for the message: sanitizeURL is never called, so no short link is expanded,
\* no manifest and no image is requested and no file is created, no message
\* is sent and the original message is not deleted.
C22_NoCut ==
  text \in MarkedTexts =>
    /\ pc \in { "handle", "handled" }
    /\ ret.kind = "running"
    /\ hist = << >> /\ cur = NoCur /\ originalURLs = << >> /\ sb = << >>
    /\ images = << >> /\ results = << >>
    /\ disk = { }
    /\ sent = << >>
    /\ deleted = "no"
    /\ pc = "handled" => hret.err = nil

\* the handler has returned for a text with a URL to clean whose marker is
\* not a word of its own
C22_Witness ==
  /\ pc = "handled"
  /\ Contains(TextBytes(text), msgMarkerNoCut)
  /\ \A k \in DOMAIN text : text[k] # NoCutWord
  /\ URLTokens(text) # << >>

\* C23: after handleTextMessage has returned for a message, whatever the path
\* (album sent, a batch send failed, text sent, nothing changed, error of
\* sanitizeURL), no image file downloaded for the message is left in the
\* cache directory.
C23_CacheEmptied == pc = "handled" => disk = { }

\* the results of the downloads of the call that have stored a file
Stored == { k \in DOMAIN results : results[k].err = nil /\ results[k].path # NoPath }

\* C24: no two downloadImage executions create the same cache file: the
\* downloads of one fetchTikTokPhotos call that stored a file, also those of
\* a manifest that lists one image URL twice, have stored files of different
\* names.
C24_UniqueNames ==
  \A a, b \in Stored : a # b => results[a].path.file # results[b].path.file

\* a line of the text is longer than the scanner's buffer
Unscannable(t) == \E k \in DOMAIN t : t[k] = LONG

\* C25: when scanning the text fails, sanitizeURL returns an error with the
\* empty text, changed false, isPhotoAlbum false and no paths and no URLs,
\* whatever it had written and collected before; handleTextMessage then
\* returns that error, sends nothing and does not delete the original.
C25_Fatal ==
  ret.kind = "returned" =>
    /\ Unscannable(text) => ret.err # nil
    /\ ret.err # nil =>
         /\ ret.sanitizedText = << >>
         /\ ~ret.wasSanitized /\ ~ret.isTikTokPhotoAlbum
         /\ ret.downloadedPhotoPaths = << >> /\ ret.originalURLs = << >>
         /\ pc \in { "done", "handled" }
         /\ sent = << >>
         /\ deleted = "no"
         /\ pc = "handled" => hret.err = ret.err

\* the handler has returned the scan error of a text whose first line had a
\* URL that was cleaned
C25_Witness ==
  /\ pc = "handled"
  /\ ret.kind = "returned"
  /\ ret.err # nil
  /\ originalURLs # << >>
  /\ wasSanitized
  /\ sb # << >>

\* C26: sanitizeURL returns isTikTokPhotoAlbum true if and only if the
\* downloadedPhotoPaths it returns is not empty, also when the text has
\* several photo posts of which some resolve and some fail; and when it is
\* true, changed is true.
C26_AlbumIffPaths ==
  ReturnedOK =>
    /\ ret.isTikTokPhotoAlbum <=> (ret.downloadedPhotoPaths # << >>)
    /\ ret.isTikTokPhotoAlbum => ret.wasSanitized

\* the files of the albums of the calls s, in order
RECURSIVE Files(_)
Files(s) ==
  IF s = << >> THEN << >>
  ELSE [ j \in DOMAIN Head(s).album |-> Head(s).album[j].File ] \o Files(Tail(s))

\* the replacement has been sent: the text, or every photo in albums
Replaced ==
  /\ sent # << >>
  /\ \A k \in DOMAIN sent : sent[k].ok
  /\ IF sent[1].kind = "album"
     THEN (\A k \in DOMAIN sent : sent[k].kind = "album") /\ Files(sent) = ret.downloadedPhotoPaths
     ELSE sent = << [ kind |-> "text", ok |-> TRUE, text |-> ret.sanitizedText ] >>

\* C27: handleTextMessage calls b.Delete on the original message only after
\* the replacement, the text message or every album batch, has been sent
\* without error: when sanitizeURL reports no change or an error, or a send
\* fails, the original is never deleted; and when the delete fails the
\* handler still returns nil.
C27_DeleteAfterSend ==
  /\ deleted # "no" =>
       /\ pc = "handled"
       /\ ret.err = nil
       /\ ret.wasSanitized
       /\ sendErr = nil
       /\ Replaced
  /\ (pc = "handled" /\ deleted = "failed") => hret.err = nil
  /\ (pc = "handled" /\ \E k \in DOMAIN sent : ~sent[k].ok) => (deleted = "no" /\ hret.err # nil)

\* three batches were sent and the delete of the original failed
C27_Witness ==
  /\ pc = "handled"
  /\ deleted = "failed"
  /\ Len(sent) = 3
  /\ hret.err = nil

\* the least number of batches of at most d that hold n photos
Ceil(n, d) == CHOOSE k \in 0..n : k * d >= n /\ (k = 0 \/ (k - 1) * d < n)

=============================================================================
